---- MODULE Spec2Model ----
(***************************************************************************)
(* Model of sub-bridge's chat proxy (src/src/routes/chat.ts): the key      *)
(* router (parseRoutedKeys, resolveModelRouting), the context manager      *)
(* (truncateMessages), the Responses-SSE stream translator                 *)
(* (processChatGptChunk and the streaming loop of handleChatGptProxy) and  *)
(* the request orchestrator (handleChatCompletion) with the message       *)
(* converter (convertMessages).                                            *)
(*                                                                         *)
(* Strings.  A JavaScript string is a sequence of atoms.  An atom is       *)
(* either one of the delimiter characters the parsers look for (" ", ",",  *)
(* ":", "=", "#", ".") or a chunk of characters holding none of them.      *)
(* Indices are 0-based as in JavaScript: indexOf gives -1 when absent.     *)
(* `undefined` is the reserved value Undefined.                            *)
(***************************************************************************)
EXTENDS Integers, Sequences, FiniteSets, TLC

VARIABLES
    \* ---- key router (SpecKeys) ----
    kTokens,        \* the header's tokens as written by the client
    kModel,         \* the model the client asks for
    kParsed,        \* ParsedKeys of the header, once parsed
    kRouting,       \* result of resolveModelRouting, once resolved
    kpc,            \* "start" | "parsed" | "resolved"
    \* ---- context manager (SpecTruncate) ----
    tMessages,      \* truncateMessages's `messages`
    tTarget,        \* `targetTokens`
    tSystem,        \* `systemTokens`
    tTools,         \* `toolsTokens`
    tpc,            \* "start" | "walk" | "assemble" | "done"
    tPairs,         \* `pairs`: tool_use index -> tool_result index, in insertion order
    tI,             \* the walk's loop variable `i` (1-based here)
    tInclude,       \* `include`
    tCurrent,       \* `currentTokens`
    tResult,        \* the TruncationResult returned
    \* ---- Responses-SSE stream translator (SpecStream) ----
    sText,          \* the text the upstream will send, frame after frame
    sPos,           \* how much of it reader.read() has delivered
    sState,         \* the ChatGptStreamState of the request
    sWritten,       \* the frames written to the client, in order
    spc,            \* "reading" | "closed" | "failed"
    sReleased,      \* reader.releaseLock() was called
    sClientGone,    \* the client has disconnected
    \* ---- request orchestrator (SpecRequest) ----
    rHeader,        \* the Authorization header's tokens as written by the client
    rModel,         \* body.model as the client sent it
    rBody,          \* the request body
    rMode,          \* contextOverflowMode
    rpc,            \* "start" | "parsed" | "awaitOpenAI" | "awaitChatGpt" |
                    \* "awaitClaude" | "refreshing" | "done"
    rParsed,        \* `parsedKeys`
    rRouting,       \* `routing`
    rClean,         \* `cleanBody`, the body sent to Anthropic
    rToken,         \* `claudeAccessToken`
    rCalls,         \* the upstream calls made, each with the answer it got
    rRefresh,       \* how often refreshClaudeToken was called
    rResponse,      \* the response returned to the client
    \* ---- message converter (SpecConvert) ----
    cMessages,      \* convertMessages's `messages`, as the client sent them
    cConverted,     \* `converted`
    cI,             \* index of the next message of the first loop (1-based)
    cpc,            \* "start" | "loop" | "done"
    \* ---- two streamed requests at once (SpecPair) ----
    pText,          \* per request: the text its upstream will send
    pPos,           \* per request: how much of it reader.read() has delivered
    pState,         \* per request: the `state` of its handleChatGptProxy call
    pWritten,       \* per request: the frames written to its client
    pAlone,         \* per request: state and frames of the same reads made
                    \* with no other request in the process
    ppc,            \* per request: "reading" | "closed"
    \* ---- OAuth authorization codes (SpecOAuth) ----
    oNow,           \* Date.now(), in ms since the process started
    oTicks,         \* how often the clock was read to have advanced
    oPending,       \* `pendingAuthorizations`: the entries, each with its id
    oCodes,         \* `authorizationCodes`: the entries, each with its code
    oStarted,       \* how many pending ids crypto.randomBytes has produced
    oIssued,        \* the codes generateAuthCode has produced, as issued, in order
    oAttempted,     \* the codes an exchange was attempted on
    oSuccesses,     \* per issued code: how often an exchange returned it
    oLast,          \* the last call of exchangeAuthorizationCode and its result
    \* ---- Anthropic-SSE stream translator (SpecAnthropic) ----
    aText,          \* the text Anthropic will send, frame after frame
    aPos,           \* how much of it reader.read() has delivered
    aState,         \* `converterState`
    aWritten,       \* the frames written to the client, in order
    apc,            \* "reading" | "closed"
    \* ---- non-streaming aggregation of a Responses stream (SpecAggregate) ----
    gText,          \* the text the upstream will send, frame after frame
    gPos,           \* how much of it reader.read() has delivered
    gState,         \* `state`
    gContent,       \* `fullContent`
    gToolCalls,     \* `toolCallsMap`: its values, in insertion order
    gUsage,         \* `usage`
    gpc,            \* "reading" | "done"
    gResponse       \* the body of the response returned

keyVars == <<kTokens, kModel, kParsed, kRouting, kpc>>

truncVars == <<tMessages, tTarget, tSystem, tTools, tpc, tPairs, tI, tInclude,
               tCurrent, tResult>>

streamVars == <<sText, sPos, sState, sWritten, spc, sReleased, sClientGone>>

reqVars == <<rHeader, rModel, rBody, rMode, rpc, rParsed, rRouting, rClean, rToken,
             rCalls, rRefresh, rResponse>>

convVars == <<cMessages, cConverted, cI, cpc>>

pairVars == <<pText, pPos, pState, pWritten, pAlone, ppc>>

oauthVars == <<oNow, oTicks, oPending, oCodes, oStarted, oIssued, oAttempted, oSuccesses,
              oLast>>

anthVars == <<aText, aPos, aState, aWritten, apc>>

aggVars == <<gText, gPos, gState, gContent, gToolCalls, gUsage, gpc, gResponse>>

vars == <<keyVars, truncVars, streamVars, reqVars, convVars, pairVars, oauthVars,
          anthVars, aggVars>>

----------------------------------------------------------------------------
(* Bounds of the model *)

MaxTokens == 3          \* tokens in one Authorization header (SpecKeys)
MaxEvents == 3          \* frames in one upstream stream (SpecStream)
MaxMessages == 4        \* messages in one conversation (SpecTruncate)
MaxRequestTokens == 2   \* tokens in the header of one request (SpecRequest)
MaxInput == 3           \* messages in one conversation to convert (SpecConvert)
MaxPairEvents == 2      \* frames in each of two concurrent streams (SpecPair)
MaxAuth == 1            \* authorizations started (SpecOAuth)
MaxAnthropicEvents == 3 \* frames in one Anthropic upstream stream (SpecAnthropic)
MaxAggregateEvents == 3 \* frames in one aggregated upstream stream (SpecAggregate)
MaxClock == 1           \* times the clock is read to have advanced (SpecOAuth)

----------------------------------------------------------------------------
(* JavaScript string primitives over atom sequences *)

Undefined == <<"<undefined>">>

\* Sequences over S of length at most n
SeqsUpTo(S, n) == UNION {[1..k -> S] : k \in 0..n}

Falsy(s) == s = Undefined \/ s = <<>>

Or(a, b) == IF Falsy(a) THEN b ELSE a

includes(s, a) == \E i \in 1..Len(s) : s[i] = a

indexOf(s, a) ==
    IF includes(s, a)
    THEN (CHOOSE i \in 1..Len(s) : s[i] = a /\ \A j \in 1..(i - 1) : s[j] /= a) - 1
    ELSE -1

lastIndexOf(s, a) ==
    IF includes(s, a)
    THEN (CHOOSE i \in 1..Len(s) : s[i] = a /\ \A j \in (i + 1)..Len(s) : s[j] /= a) - 1
    ELSE -1

\* s.slice(from, to) and s.slice(from), 0-based, `to` exclusive
slice(s, from, to) == SubSeq(s, from + 1, to)

sliceFrom(s, from) == SubSeq(s, from + 1, Len(s))

startsWith(s, a) == Len(s) >= 1 /\ s[1] = a

RECURSIVE split(_, _)
split(s, d) ==
    LET i == indexOf(s, d)
    IN  IF i = -1 THEN <<s>>
        ELSE <<slice(s, 0, i)>> \o split(sliceFrom(s, i + 1), d)

RECURSIVE trimStart(_)
trimStart(s) == IF startsWith(s, " ") THEN trimStart(Tail(s)) ELSE s

RECURSIVE trimEnd(_)
trimEnd(s) ==
    IF Len(s) >= 1 /\ s[Len(s)] = " " THEN trimEnd(SubSeq(s, 1, Len(s) - 1)) ELSE s

trim(s) == trimEnd(trimStart(s))

\* xs.filter(Boolean) on a list of strings
filterBoolean(xs) == SelectSeq(xs, LAMBDA t : t /= <<>>)

\* xs.map(t => t.trim())
RECURSIVE mapTrim(_)
mapTrim(xs) == IF xs = <<>> THEN <<>> ELSE <<trim(Head(xs))>> \o mapTrim(Tail(xs))

\* authHeader.replace(/^Bearer\s+/i, '')
stripBearer(s) ==
    IF Len(s) >= 2 /\ s[1] \in {"Bearer", "bearer"} /\ s[2] = " "
    THEN trimStart(Tail(s))
    ELSE s

----------------------------------------------------------------------------
(* Key router *)

MODEL_ALIASES(name) ==
    CASE name = <<"opus-4.5">>   -> <<"claude-", "opus-4-5-20251101">>
      [] name = <<"sonnet-4.5">> -> <<"claude-", "sonnet-4-5-20250514">>
      [] OTHER                   -> Undefined

splitProviderTokens(fullToken) ==
    IF fullToken = <<>> THEN <<>>
    ELSE
    LET bySpace == filterBoolean(split(fullToken, " "))
        single == IF bySpace = <<>> THEN <<>> ELSE bySpace[1]
        lastColon == lastIndexOf(single, ":")
        mappingPart == slice(single, 0, lastColon)
        tokenPart == sliceFrom(single, lastColon + 1)
        splitTokens == filterBoolean(mapTrim(split(tokenPart, ",")))
    IN  IF Len(bySpace) > 1 THEN bySpace
        ELSE IF ~includes(single, ",")
             THEN (IF single /= <<>> THEN <<single>> ELSE <<>>)
        ELSE IF lastColon /= -1 /\ includes(tokenPart, ",") /\ Len(splitTokens) > 0
             THEN <<mappingPart \o <<":">> \o splitTokens[1]>> \o Tail(splitTokens)
        ELSE filterBoolean(mapTrim(split(single, ",")))

\* Mutant: the `#accountId` suffix is never split off
parseTokenWithAccount_NoSplit(token) == [token |-> token, accountId |-> Undefined]

parseTokenWithAccount(token) ==
    LET hashIndex == indexOf(token, "#")
    IN  IF hashIndex > 0
        THEN [token |-> slice(token, 0, hashIndex),
              accountId |-> sliceFrom(token, hashIndex + 1)]
        ELSE [token |-> token, accountId |-> Undefined]

isJwtToken(token) ==
    LET parts == split(token, ".")
    IN  Len(parts) = 3 /\ \A i \in 1..3 : Len(parts[i]) > 0

isSubBridgeToken(token) == startsWith(token, "sb1.")

NoOAuth ==
    [claudeToken |-> Undefined, claudeRefreshToken |-> Undefined,
     chatgptToken |-> Undefined, chatgptAccountId |-> Undefined]

mergeOAuthTokens(target, incoming) ==
    [claudeToken |->
        IF ~Falsy(incoming.claudeToken) /\ Falsy(target.claudeToken)
        THEN incoming.claudeToken ELSE target.claudeToken,
     claudeRefreshToken |->
        IF ~Falsy(incoming.claudeRefreshToken) /\ Falsy(target.claudeRefreshToken)
        THEN incoming.claudeRefreshToken ELSE target.claudeRefreshToken,
     chatgptToken |->
        IF ~Falsy(incoming.chatgptToken) /\ Falsy(target.chatgptToken)
        THEN incoming.chatgptToken ELSE target.chatgptToken,
     chatgptAccountId |->
        IF ~Falsy(incoming.chatgptAccountId) /\ Falsy(target.chatgptAccountId)
        THEN incoming.chatgptAccountId ELSE target.chatgptAccountId]

\* What the server's secret decrypts a ciphertext to: the upstream tokens of
\* a payload that is well-formed and unexpired, or nothing (ok = FALSE) for a
\* ciphertext that is tampered, malformed or expired.
Vault(cipher) ==
    CASE cipher = <<"A">> ->
            [ok |-> TRUE, claudeAccess |-> <<"at-1">>, claudeRefresh |-> <<"rt-1">>,
             chatgptAccess |-> Undefined, chatgptAccount |-> Undefined]
      [] cipher = <<"B">> ->
            [ok |-> TRUE, claudeAccess |-> <<"at-2">>, claudeRefresh |-> Undefined,
             chatgptAccess |-> Undefined, chatgptAccount |-> Undefined]
      [] cipher = <<"C">> ->
            [ok |-> TRUE, claudeAccess |-> <<"at-3">>, claudeRefresh |-> <<"rt-3">>,
             chatgptAccess |-> Undefined, chatgptAccount |-> Undefined]
      [] cipher = <<"G">> ->
            [ok |-> TRUE, claudeAccess |-> Undefined, claudeRefresh |-> Undefined,
             chatgptAccess |-> <<"gt-1">>, chatgptAccount |-> <<"acct_g">>]
      [] cipher = <<"H">> ->
            [ok |-> TRUE, claudeAccess |-> Undefined, claudeRefresh |-> Undefined,
             chatgptAccess |-> <<"gt-2">>, chatgptAccount |-> Undefined]
      [] OTHER ->
            [ok |-> FALSE, claudeAccess |-> Undefined, claudeRefresh |-> Undefined,
             chatgptAccess |-> Undefined, chatgptAccount |-> Undefined]

decodeAccessToken(token) ==
    IF ~startsWith(token, "sb1.") THEN Vault(<<>>)
    ELSE Vault(Tail(token))

OAuthErrorText == <<"OAuth token invalid or expired. Please re-authenticate.">>

\* Mutant: a credential that fails decryption is treated as no credential
parseOAuthToken_DropInvalid(token) ==
    [isNull |-> TRUE, error |-> Undefined, hasTokens |-> FALSE, tokens |-> NoOAuth]

\* null | {error} | {tokens}
parseOAuthToken(token) ==
    LET payload == decodeAccessToken(token)
    IN  IF ~startsWith(token, "sb1.")
        THEN [isNull |-> TRUE, error |-> Undefined, hasTokens |-> FALSE, tokens |-> NoOAuth]
        ELSE IF ~payload.ok
        THEN [isNull |-> FALSE, error |-> OAuthErrorText, hasTokens |-> FALSE,
              tokens |-> NoOAuth]
        ELSE [isNull |-> FALSE, error |-> Undefined, hasTokens |-> TRUE,
              tokens |->
                [claudeToken |-> Or(payload.claudeAccess, Undefined),
                 claudeRefreshToken |-> Or(payload.claudeRefresh, Undefined),
                 chatgptToken |-> Or(payload.chatgptAccess, Undefined),
                 chatgptAccountId |-> Or(payload.chatgptAccount, Undefined)]]

\* Mutant: the mapping target is kept as written, aliases unresolved
parseMapping_NoAlias(m) ==
    LET parts == split(m, "=")
    IN  [from |-> trim(parts[1]), to |-> IF Len(parts) >= 2 THEN parts[2] ELSE Undefined]

\* m => { const [from, to] = m.split('='); ... }
parseMapping(m) ==
    LET parts == split(m, "=")
        from == parts[1]
        to == IF Len(parts) >= 2 THEN parts[2] ELSE Undefined
    IN  [from |-> trim(from), to |-> Or(MODEL_ALIASES(to), to)]

RECURSIVE mapMappings(_)
mapMappings(ms) ==
    IF ms = <<>> THEN <<>> ELSE <<parseMapping(Head(ms))>> \o mapMappings(Tail(ms))

\* The accumulators of parseRoutedKeys's loop
ParseAcc0 ==
    [configs |-> <<>>, defaultKey |-> Undefined, defaultAccountId |-> Undefined,
     oauthTokens |-> NoOAuth, oauthError |-> Undefined]

\* One iteration of the loop `for (const token of tokens)`
parseOneToken(acc, token) ==
    IF token = <<>> THEN acc
    ELSE IF ~includes(token, "=")
    THEN LET parsed == parseTokenWithAccount(token)
             oauthParsed == parseOAuthToken(parsed.token)
         IN  IF isSubBridgeToken(parsed.token)
             THEN [acc EXCEPT
                    !.oauthError = IF ~Falsy(oauthParsed.error)
                                   THEN oauthParsed.error ELSE @,
                    !.oauthTokens = IF oauthParsed.hasTokens
                                    THEN mergeOAuthTokens(@, oauthParsed.tokens) ELSE @]
             ELSE IF Falsy(acc.defaultKey)
             THEN [acc EXCEPT !.defaultKey = parsed.token,
                              !.defaultAccountId = parsed.accountId]
             ELSE acc
    ELSE LET lastColon == lastIndexOf(token, ":")
             mappingsPart == slice(token, 0, lastColon)
             parsedToken == parseTokenWithAccount(sliceFrom(token, lastColon + 1))
             oauthParsed == parseOAuthToken(parsedToken.token)
             mappings == mapMappings(split(mappingsPart, ","))
         IN  IF lastColon = -1 THEN acc
             ELSE IF ~isSubBridgeToken(parsedToken.token)
             THEN [acc EXCEPT !.configs = Append(@,
                      [mappings |-> mappings, apiKey |-> parsedToken.token,
                       accountId |-> parsedToken.accountId])]
             ELSE IF ~Falsy(oauthParsed.error)
             THEN [acc EXCEPT !.oauthError = oauthParsed.error]
             ELSE IF Falsy(oauthParsed.tokens.claudeToken)
             THEN [acc EXCEPT !.oauthTokens = mergeOAuthTokens(@, oauthParsed.tokens)]
             ELSE [acc EXCEPT
                    !.oauthTokens = mergeOAuthTokens(@, oauthParsed.tokens),
                    !.configs = Append(@,
                      [mappings |-> mappings, apiKey |-> oauthParsed.tokens.claudeToken,
                       accountId |-> parsedToken.accountId])]

\* Mutant: the loop stops after the first token
parseLoop_FirstTokenOnly(acc, tokens) ==
    IF tokens = <<>> THEN acc ELSE parseOneToken(acc, Head(tokens))

RECURSIVE parseLoop(_, _)
parseLoop(acc, tokens) ==
    IF tokens = <<>> THEN acc
    ELSE parseLoop(parseOneToken(acc, Head(tokens)), Tail(tokens))

NoHeader == <<"<no header>">>

\* ParsedKeys; `hasOAuth` tells whether the `oauth` field is defined
parseRoutedKeys(authHeader) ==
    IF authHeader = NoHeader \/ authHeader = <<>>
    THEN [configs |-> <<>>, defaultKey |-> Undefined, defaultAccountId |-> Undefined,
          hasOAuth |-> FALSE, oauth |-> NoOAuth, oauthError |-> Undefined]
    ELSE
    LET fullToken == trim(stripBearer(authHeader))
        tokens == splitProviderTokens(fullToken)
        acc == parseLoop(ParseAcc0, tokens)
        hasOAuth == ~Falsy(acc.oauthTokens.claudeToken)
                    \/ ~Falsy(acc.oauthTokens.chatgptToken)
                    \/ ~Falsy(acc.oauthTokens.chatgptAccountId)
    IN  [configs |-> acc.configs, defaultKey |-> acc.defaultKey,
         defaultAccountId |-> acc.defaultAccountId,
         hasOAuth |-> hasOAuth,
         oauth |-> IF hasOAuth THEN acc.oauthTokens ELSE NoOAuth,
         oauthError |-> acc.oauthError]

isClaudeModel(model) ==
    startsWith(model, "claude-") \/ startsWith(MODEL_ALIASES(model), "claude-")

NoRouting == [found |-> FALSE, claudeModel |-> Undefined, apiKey |-> Undefined]

\* for (const mapping of config.mappings) if (mapping.from === requestedModel) return ...
RECURSIVE routeInMappings(_, _, _)
routeInMappings(mappings, apiKey, requestedModel) ==
    IF mappings = <<>> THEN NoRouting
    ELSE IF Head(mappings).from = requestedModel
    THEN [found |-> TRUE, claudeModel |-> Head(mappings).to, apiKey |-> apiKey]
    ELSE routeInMappings(Tail(mappings), apiKey, requestedModel)

\* Mutant: the configs are scanned from the last to the first
RECURSIVE routeInConfigs_LastWins(_, _)
routeInConfigs_LastWins(configs, requestedModel) ==
    IF configs = <<>> THEN NoRouting
    ELSE LET last == configs[Len(configs)]
             hit == routeInMappings(last.mappings, last.apiKey, requestedModel)
         IN  IF hit.found THEN hit
             ELSE routeInConfigs_LastWins(SubSeq(configs, 1, Len(configs) - 1),
                                          requestedModel)

\* for (const config of parsedKeys.configs) ...
RECURSIVE routeInConfigs(_, _)
routeInConfigs(configs, requestedModel) ==
    IF configs = <<>> THEN NoRouting
    ELSE LET hit == routeInMappings(Head(configs).mappings, Head(configs).apiKey,
                                    requestedModel)
         IN  IF hit.found THEN hit
             ELSE routeInConfigs(Tail(configs), requestedModel)

\* Mutant: the default key is tried before the mappings
resolveModelRouting_DefaultKeyFirst(requestedModel, parsedKeys) ==
    IF ~Falsy(parsedKeys.defaultKey)
    THEN [found |-> TRUE, claudeModel |-> Or(MODEL_ALIASES(requestedModel), requestedModel),
          apiKey |-> parsedKeys.defaultKey]
    ELSE routeInConfigs(parsedKeys.configs, requestedModel)

resolveModelRouting(requestedModel, parsedKeys) ==
    LET routed == routeInConfigs(parsedKeys.configs, requestedModel)
        resolvedModel == Or(MODEL_ALIASES(requestedModel), requestedModel)
    IN  IF routed.found THEN routed
        ELSE IF isClaudeModel(requestedModel) /\ ~Falsy(parsedKeys.defaultKey)
        THEN [found |-> TRUE, claudeModel |-> resolvedModel,
              apiKey |-> parsedKeys.defaultKey]
        ELSE IF ~Falsy(parsedKeys.defaultKey)
        THEN [found |-> TRUE, claudeModel |-> resolvedModel,
              apiKey |-> parsedKeys.defaultKey]
        ELSE NoRouting

----------------------------------------------------------------------------
(* Message converter: convertMessages and convertContentBlockToClaude.     *)
(* A content value is [form, str, blocks]: form tells whether it is        *)
(* undefined, null, a string (str) or an array (blocks).  A block is       *)
(* [type, text, id, input]: text is the block's text (the url of an image  *)
(* block, the content of a tool_result), Undefined when it is not a        *)
(* string; id is the id of a tool_use block, the tool_use_id of a          *)
(* tool_result block; input is the input the conversion gives a tool_use   *)
(* block.                                                                  *)

Content(form, str, blocks) == [form |-> form, str |-> str, blocks |-> blocks]

NoContent == Content("undefined", <<>>, <<>>)

NullContent == Content("null", <<>>, <<>>)

StringContent(s) == Content("string", s, <<>>)

ArrayContent(blocks) == Content("array", <<>>, blocks)

\* The input of a tool_use block: the value JSON.parse returned for the
\* text ("parsed"), the object {raw: text} or {command: text}, or {} ("empty")
Input(kind, text) == [kind |-> kind, text |-> text]

NoInput == Input("", <<>>)

Block(type, text, id) == [type |-> type, text |-> text, id |-> id, input |-> NoInput]

ToolUse(id, input) == [Block("tool_use", Undefined, id) EXCEPT !.input = input]

\* The argument payload the tool call with this id carries in the request
\* (`function.arguments` of a tool_calls entry, `arguments` of an item): a
\* JSON text, a text that is not JSON, or none
ArgumentsOf(id) ==
    IF id = <<"call_a">> THEN <<"{", "\"city\":1", "}">>
    ELSE IF id = <<"call_b">> THEN <<"ls", " ", "-la">>
    ELSE Undefined

\* JSON.parse(text) returns for the text of an object, and throws otherwise
jsonObjectParses(text) ==
    /\ Len(text) >= 2
    /\ text[1] = "{" /\ text[Len(text)] = "}"
    /\ \A i \in 2..(Len(text) - 1) : text[i] \notin {"{", "}", " "}

\* `input` of a tool_calls entry: tc.function?.arguments || tc.arguments || {},
\* parsed when it is a string, {raw: input} when the parse throws
toolCallInput(arguments) ==
    IF Falsy(arguments) THEN Input("empty", <<>>)
    ELSE IF jsonObjectParses(arguments) THEN Input("parsed", arguments)
    ELSE Input("raw", arguments)

\* `toolInput` of a function_call or custom_tool_call item: msg.input ||
\* msg.arguments, parsed when it is a string, {command: toolInput} when the
\* parse throws, {} when there is none
itemToolInput(arguments) ==
    IF Falsy(arguments) THEN Input("empty", <<>>)
    ELSE IF jsonObjectParses(arguments) THEN Input("parsed", arguments)
    ELSE Input("command", arguments)

\* what convertContentBlockToClaude returns for an image_url block without url
NullBlock == Block("<null>", Undefined, <<>>)

\* A message of the request: an OpenAI chat message (role, content,
\* tool_calls as the list of their ids, tool_call_id) or a Responses item
\* (type, call_id, output); the arguments of a tool call are ArgumentsOf its id
InMessage(type, role, callId, content, toolCalls, toolCallId, output) ==
    [type |-> type, role |-> role, call_id |-> callId, content |-> content,
     tool_calls |-> toolCalls, tool_call_id |-> toolCallId, output |-> output]

OutMessage(role, content) == [role |-> role, content |-> content]

Placeholder == <<"...">>

convertContentBlockToClaude(block) ==
    IF block.type = "text" THEN Block("text", Or(block.text, <<>>), <<>>)
    ELSE IF block.type = "image_url"
    THEN (IF Falsy(block.text) THEN NullBlock ELSE Block("image", block.text, <<>>))
    ELSE block

\* user content: every block converted, the null results left out
RECURSIVE convertUserBlocks(_)
convertUserBlocks(blocks) ==
    IF blocks = <<>> THEN <<>>
    ELSE LET convertedBlock == convertContentBlockToClaude(Head(blocks))
         IN  (IF convertedBlock = NullBlock THEN <<>> ELSE <<convertedBlock>>)
             \o convertUserBlocks(Tail(blocks))

\* assistant content: the text blocks whose text is a string and the tool_use
\* blocks are kept, every other block is left out
keepAssistantBlocks(blocks) ==
    SelectSeq(blocks, LAMBDA b : (b.type = "text" /\ b.text /= Undefined)
                                 \/ b.type = "tool_use")

\* Mutant: only the first entry of msg.tool_calls becomes a tool_use block
toolCallBlocks_FirstOnly(ids) ==
    IF ids = <<>> THEN <<>> ELSE <<ToolUse(ids[1], toolCallInput(ArgumentsOf(ids[1])))>>

\* one tool_use block per entry of msg.tool_calls
toolCallBlocks(ids) ==
    [k \in 1..Len(ids) |-> ToolUse(ids[k], toolCallInput(ArgumentsOf(ids[k])))]

\* `last.content.push(block)` when canJoin, `converted.push({role, content: [block]})` otherwise
pushBlock(converted, canJoin, role, block) ==
    IF canJoin
    THEN [converted EXCEPT ![Len(converted)].content.blocks = Append(@, block)]
    ELSE Append(converted, OutMessage(role, ArrayContent(<<block>>)))

lastIsAssistantArray(converted) ==
    /\ converted /= <<>>
    /\ converted[Len(converted)].role = "assistant"
    /\ converted[Len(converted)].content.form = "array"

lastIsToolResults(converted) ==
    /\ converted /= <<>>
    /\ converted[Len(converted)].role = "user"
    /\ converted[Len(converted)].content.form = "array"
    /\ converted[Len(converted)].content.blocks /= <<>>
    /\ converted[Len(converted)].content.blocks[1].type = "tool_result"

\* content of an assistant message that has tool_calls, before the tool_use blocks
toolCallContent(content) ==
    IF content.form = "string" /\ content.str /= <<>>
    THEN <<Block("text", content.str, <<>>)>>
    ELSE IF content.form = "array" THEN keepAssistantBlocks(content.blocks)
    ELSE <<>>

\* One iteration of `for (const msg of messages)`
convertOne(converted, msg) ==
    IF msg.type \in {"custom_tool_call", "function_call"}
    THEN pushBlock(converted, lastIsAssistantArray(converted), "assistant",
                   ToolUse(msg.call_id, itemToolInput(ArgumentsOf(msg.call_id))))
    ELSE IF msg.type \in {"custom_tool_call_output", "function_call_output"}
    THEN pushBlock(converted, lastIsToolResults(converted), "user",
                   Block("tool_result", Or(msg.output, <<>>), msg.call_id))
    ELSE IF msg.role = "" THEN converted
    ELSE IF msg.role = "assistant" /\ Len(msg.tool_calls) > 0
    THEN Append(converted,
                OutMessage("assistant",
                           ArrayContent(toolCallContent(msg.content)
                                        \o toolCallBlocks(msg.tool_calls))))
    ELSE IF msg.role = "tool"
    THEN pushBlock(converted, lastIsToolResults(converted), "user",
                   Block("tool_result",
                         IF msg.content.form = "string" THEN msg.content.str
                         ELSE <<"<json>">>,
                         msg.tool_call_id))
    ELSE IF msg.role = "assistant" /\ msg.content.form = "array"
    THEN LET content == keepAssistantBlocks(msg.content.blocks)
         IN  Append(converted,
                    OutMessage("assistant",
                               IF Len(content) > 0 THEN ArrayContent(content)
                               ELSE StringContent(<<>>)))
    ELSE IF msg.role = "user" /\ msg.content.form = "array"
    THEN LET content == convertUserBlocks(msg.content.blocks)
         IN  Append(converted,
                    OutMessage("user",
                               IF Len(content) > 0 THEN ArrayContent(content)
                               ELSE StringContent(<<>>)))
    ELSE Append(converted,
                OutMessage(msg.role,
                           IF msg.content.form \in {"undefined", "null"}
                           THEN StringContent(<<>>) ELSE msg.content))

RECURSIVE convertLoop(_, _)
convertLoop(converted, messages) ==
    IF messages = <<>> THEN converted
    ELSE convertLoop(convertOne(converted, Head(messages)), Tail(messages))

\* block.text = (block.text?.trimEnd()) || '...' for the text blocks
ensureBlockText(block) ==
    IF block.type = "text"
    THEN [block EXCEPT !.text = IF @ = Undefined THEN Placeholder
                                ELSE Or(trimEnd(@), Placeholder)]
    ELSE block

\* Mutant: the content of assistant messages is left as converted
ensureAssistantContent_Keep(msg) == msg

\* The second loop: no assistant message is left with empty content
ensureAssistantContent(msg) ==
    IF msg.role /= "assistant" THEN msg
    ELSE IF msg.content.form = "string"
    THEN [msg EXCEPT !.content.str = Or(trimEnd(@), Placeholder)]
    ELSE IF msg.content.form = "array"
    THEN (IF Len(msg.content.blocks) = 0
          THEN [msg EXCEPT !.content.blocks = <<Block("text", Placeholder, <<>>)>>]
          ELSE [msg EXCEPT !.content.blocks =
                   [k \in 1..Len(@) |-> ensureBlockText(@[k])]])
    ELSE msg

ensureAll(converted) ==
    [k \in 1..Len(converted) |-> ensureAssistantContent(converted[k])]

convertMessages(messages) == ensureAll(convertLoop(<<>>, messages))

----------------------------------------------------------------------------
(* SpecConvert: one call of convertMessages, one message per step *)

UserText == InMessage("", "user", <<>>, StringContent(<<"Hi">>), <<>>, <<>>, <<>>)

AssistantEmpty == InMessage("", "assistant", <<>>, StringContent(<<>>), <<>>, <<>>, <<>>)

AssistantBlank == InMessage("", "assistant", <<>>, StringContent(<<" ", " ">>), <<>>, <<>>, <<>>)

AssistantCallsNoContent ==
    InMessage("", "assistant", <<>>, NullContent, <<<<"call_a">>>>, <<>>, <<>>)

AssistantCallsWithText ==
    InMessage("", "assistant", <<>>, StringContent(<<"Hi", " ">>),
              <<<<"call_a">>, <<"call_b">>>>, <<>>, <<>>)

AssistantCallsBlankBlock ==
    InMessage("", "assistant", <<>>, ArrayContent(<<Block("text", <<" ">>, <<>>)>>),
              <<<<"call_c">>>>, <<>>, <<>>)

AssistantBlocks ==
    InMessage("", "assistant", <<>>,
              ArrayContent(<<Block("text", <<>>, <<>>),
                             Block("tool_use", Undefined, <<"call_b">>),
                             Block("text", Undefined, <<>>),
                             Block("thinking", <<"hm">>, <<>>)>>),
              <<>>, <<>>, <<>>)

AssistantNoBlocks == InMessage("", "assistant", <<>>, ArrayContent(<<>>), <<>>, <<>>, <<>>)

ToolMessage == InMessage("", "tool", <<>>, StringContent(<<"ok">>), <<>>, <<"call_a">>, <<>>)

FunctionCallItem == InMessage("function_call", "", <<"call_b">>, NoContent, <<>>, <<>>, <<>>)

FunctionOutputItem ==
    InMessage("function_call_output", "", <<"call_b">>, NoContent, <<>>, <<>>, <<>>)

ReasoningItem == InMessage("reasoning", "", <<>>, NoContent, <<>>, <<>>, <<>>)

UserBlocks ==
    InMessage("", "user", <<>>,
              ArrayContent(<<Block("text", <<"Look">>, <<>>),
                             Block("image_url", <<>>, <<>>),
                             Block("image_url", <<"https://x/y.png">>, <<>>)>>),
              <<>>, <<>>, <<>>)

\* a user message already in Anthropic's shape: its content is a tool_result block
UserToolResults ==
    InMessage("", "user", <<>>,
              ArrayContent(<<Block("tool_result", <<"ok">>, <<"call_c">>)>>),
              <<>>, <<>>, <<>>)

SampleInput ==
    { UserText, UserToolResults, AssistantEmpty, AssistantBlank, AssistantCallsNoContent,
      AssistantCallsWithText, AssistantCallsBlankBlock, AssistantBlocks,
      AssistantNoBlocks, ToolMessage, FunctionCallItem, FunctionOutputItem,
      ReasoningItem, UserBlocks }

IdleConvert ==
    /\ cMessages = <<>>
    /\ cConverted = <<>>
    /\ cI = 0
    /\ cpc = "idle"

InitConvert ==
    /\ cMessages \in SeqsUpTo(SampleInput, MaxInput)
    /\ cConverted = <<>>
    /\ cI = 0
    /\ cpc = "start"

\* const converted = []
CBegin ==
    /\ cpc = "start"
    /\ cConverted' = <<>>
    /\ cI' = 1
    /\ cpc' = "loop"
    /\ UNCHANGED cMessages
    /\ UNCHANGED <<keyVars, truncVars, streamVars, reqVars,
                   pairVars, oauthVars, anthVars,
                   aggVars>>

\* one iteration of the first loop
CConvert ==
    /\ cpc = "loop"
    /\ cI <= Len(cMessages)
    /\ cConverted' = convertOne(cConverted, cMessages[cI])
    /\ cI' = cI + 1
    /\ UNCHANGED <<cMessages, cpc>>
    /\ UNCHANGED <<keyVars, truncVars, streamVars, reqVars,
                   pairVars, oauthVars, anthVars,
                   aggVars>>

\* the second loop over `converted`, and the return
CEnsure ==
    /\ cpc = "loop"
    /\ cI > Len(cMessages)
    /\ cConverted' = ensureAll(cConverted)
    /\ cpc' = "done"
    /\ UNCHANGED <<cMessages, cI>>
    /\ UNCHANGED <<keyVars, truncVars, streamVars, reqVars,
                   pairVars, oauthVars, anthVars,
                   aggVars>>

----------------------------------------------------------------------------
(* Context manager: token estimation and truncateMessages.                 *)
(* A message is [role, useIds, resultIds, chars]: useIds and resultIds are *)
(* what getToolUseIds and getToolResultIds return for it, in order, and    *)
(* chars is the length of JSON.stringify(msg).  Message indices are        *)
(* 1-based: index i here is index i - 1 in the source.                     *)

\* Math.ceil(content.length / 3.2), 0 for the empty string
estimateTokens(chars) == IF chars = 0 THEN 0 ELSE (chars * 10 + 31) \div 32

getToolUseIds(msg) == msg.useIds

getToolResultIds(msg) == msg.resultIds

\* A JavaScript Map as the sequence of its <<key, value>> entries in insertion
\* order; set() on a present key replaces the value and keeps the position.
MapHas(m, k) == \E e \in 1..Len(m) : m[e][1] = k

MapGet(m, k) == m[CHOOSE e \in 1..Len(m) : m[e][1] = k][2]

MapSet(m, k, v) ==
    IF MapHas(m, k)
    THEN [e \in 1..Len(m) |-> IF m[e][1] = k THEN <<k, v>> ELSE m[e]]
    ELSE Append(m, <<k, v>>)

RECURSIVE setAllIds(_, _, _)
setAllIds(m, ids, i) ==
    IF ids = <<>> THEN m ELSE setAllIds(MapSet(m, Head(ids), i), Tail(ids), i)

\* toolUseIdToIndex after the loop over messages i..length
RECURSIVE toolUseIdToIndex(_, _, _)
toolUseIdToIndex(messages, i, m) ==
    IF i > Len(messages) THEN m
    ELSE toolUseIdToIndex(messages, i + 1, setAllIds(m, getToolUseIds(messages[i]), i))

RECURSIVE toolResultIdToIndex(_, _, _)
toolResultIdToIndex(messages, i, m) ==
    IF i > Len(messages) THEN m
    ELSE toolResultIdToIndex(messages, i + 1,
                             setAllIds(m, getToolResultIds(messages[i]), i))

\* for (const [id, useIndex] of toolUseIdToIndex) ... pairs.set(useIndex, resultIndex)
RECURSIVE buildPairs(_, _, _)
buildPairs(useEntries, resultMap, pairs) ==
    IF useEntries = <<>> THEN pairs
    ELSE LET id == Head(useEntries)[1]
             useIndex == Head(useEntries)[2]
         IN  buildPairs(Tail(useEntries), resultMap,
                        IF MapHas(resultMap, id)
                        THEN MapSet(pairs, useIndex, MapGet(resultMap, id))
                        ELSE pairs)

findPairs(messages) ==
    buildPairs(toolUseIdToIndex(messages, 1, <<>>),
               toolResultIdToIndex(messages, 1, <<>>), <<>>)

\* Mutant: the 4 tokens of per-message overhead are left out
messageTokens_NoOverhead(messages, i) == estimateTokens(messages[i].chars)

messageTokens(messages, i) == estimateTokens(messages[i].chars) + 4

\* The first entry [useIdx, resultIdx] of pairs with resultIdx = i and useIdx
\* not included: 0 when there is none
firstOpenUseFor(pairs, i, include) ==
    LET hits == {e \in 1..Len(pairs) : pairs[e][2] = i /\ pairs[e][1] \notin include}
    IN  IF hits = {} THEN 0
        ELSE pairs[CHOOSE e \in hits : \A f \in hits : e <= f][1]

\* The body of the walk's loop for a message i that is not yet included:
\* the new <<include, currentTokens>>
includeOrReject(messages, pairs, available, i, include, current) ==
    LET tokensNeeded == messageTokens(messages, i)
        asUse == IF MapHas(pairs, i) THEN MapGet(pairs, i) ELSE 0
        pairTokens1 == tokensNeeded
                       + (IF asUse /= 0 /\ asUse \notin include
                          THEN messageTokens(messages, asUse) ELSE 0)
        asResult == firstOpenUseFor(pairs, i, include)
        pairedIndex == IF asResult /= 0 THEN asResult ELSE asUse
        pairTokens == pairTokens1
                      + (IF asResult /= 0 THEN messageTokens(messages, asResult) ELSE 0)
        withI == include \cup {i}
    IN  IF current + pairTokens <= available
        THEN IF pairedIndex /= 0 /\ pairedIndex \notin withI
             THEN <<withI \cup {pairedIndex},
                    current + tokensNeeded + messageTokens(messages, pairedIndex)>>
             ELSE <<withI, current + tokensNeeded>>
        ELSE <<include, current>>

\* Mutant: the walk ends at the first message that does not fit
walkStep_StopAtRejection(messages, pairs, available, i, include, current) ==
    IF i \in include \/ (\E j \in (i + 1)..Len(messages) : j \notin include)
    THEN <<include, current>>
    ELSE includeOrReject(messages, pairs, available, i, include, current)

\* One iteration of `for (let i = messages.length - 1; i >= 0; i--)`:
\* the new <<include, currentTokens>>
walkStep(messages, pairs, available, i, include, current) ==
    IF i \in include THEN <<include, current>>
    ELSE includeOrReject(messages, pairs, available, i, include, current)

\* Mutant: the kept messages are collected newest first
RECURSIVE assemble_NewestFirst(_, _, _)
assemble_NewestFirst(messages, include, i) ==
    IF i > Len(messages) THEN <<>>
    ELSE assemble_NewestFirst(messages, include, i + 1)
         \o (IF i \in include THEN <<messages[i]>> ELSE <<>>)

\* for (let i = 0; i < messages.length; i++) if (include.has(i)) result.push(messages[i])
RECURSIVE assemble(_, _, _)
assemble(messages, include, i) ==
    IF i > Len(messages) THEN <<>>
    ELSE (IF i \in include THEN <<messages[i]>> ELSE <<>>)
         \o assemble(messages, include, i + 1)

NoNotice == [kind |-> "undefined", removed |-> 0]

SystemExceedsNotice == [kind |-> "system and tools exceed limit", removed |-> 0]

TruncatedNotice(removedCount) == [kind |-> "context truncated", removed |-> removedCount]

NoResult == [messages |-> <<>>, truncated |-> FALSE, removedCount |-> 0,
             truncationNotice |-> NoNotice]

truncationResult(messages, include) ==
    LET result == assemble(messages, include, 1)
        removedCount == Len(messages) - Len(result)
        truncated == removedCount > 0
    IN  [messages |-> result, truncated |-> truncated, removedCount |-> removedCount,
         truncationNotice |-> IF truncated THEN TruncatedNotice(removedCount)
                              ELSE NoNotice]

\* Mutant: the tokens of the tool definitions are not reserved
availableForMessages_IgnoreTools(targetTokens, systemTokens, toolsTokens) ==
    targetTokens - systemTokens

availableForMessages(targetTokens, systemTokens, toolsTokens) ==
    targetTokens - systemTokens - toolsTokens

\* The whole walk `for (let i = messages.length - 1; i >= 0; i--)`: the final `include`
RECURSIVE walk(_, _, _, _, _, _)
walk(messages, pairs, available, i, include, current) ==
    IF i < 1 THEN include
    ELSE LET next == walkStep(messages, pairs, available, i, include, current)
         IN  walk(messages, pairs, available, i - 1, next[1], next[2])

truncateMessages(messages, targetTokens, systemTokens, toolsTokens) ==
    IF availableForMessages(targetTokens, systemTokens, toolsTokens) <= 0
    THEN [messages |-> <<>>, truncated |-> TRUE, removedCount |-> Len(messages),
          truncationNotice |-> SystemExceedsNotice]
    ELSE IF Len(messages) = 0 THEN NoResult
    ELSE truncationResult(messages,
            walk(messages, findPairs(messages),
                 availableForMessages(targetTokens, systemTokens, toolsTokens),
                 Len(messages), {}, 0))

----------------------------------------------------------------------------
(* SpecTruncate: one call of truncateMessages, one loop iteration per step *)

ToolIds == {"toolu_a", "toolu_b"}

SampleChars == {16, 48}         \* 5 + 4 and 15 + 4 tokens

SampleTargets == {3, 5, 12, 30, 45}

SampleSystemTokens == {2}

SampleToolsTokens == {0, 3}

\* The ids placed in message i, in the order `first` gives to two ids of one message
IdsAt(place, i, first) ==
    LET here == {id \in ToolIds : place[id] = i}
    IN  IF here = {} THEN <<>>
        ELSE IF Cardinality(here) = 1 THEN <<CHOOSE id \in here : TRUE>>
        ELSE <<first, CHOOSE id \in here : id /= first>>

\* A tool_result never precedes or shares the message of its tool_use, and
\* no message carries both tool_use and tool_result blocks
WellFormedPlacement(use, res) ==
    /\ \A id \in ToolIds : (use[id] /= 0 /\ res[id] /= 0) => use[id] < res[id]
    /\ \A id1 \in ToolIds, id2 \in ToolIds : use[id1] /= 0 => use[id1] /= res[id2]

\* Conversations of n messages in which every tool id names at most one
\* tool_use block (in an assistant message) and at most one tool_result block
\* (in a later user message)
Conversations(n) ==
    { [i \in 1..n |->
         [role |-> IF IdsAt(pl[1], i, pl[3]) /= <<>> THEN "assistant" ELSE "user",
          useIds |-> IdsAt(pl[1], i, pl[3]),
          resultIds |-> IdsAt(pl[2], i, pl[4]),
          chars |-> chars[i]]] :
      pl \in {q \in [ToolIds -> 0..n] \X [ToolIds -> 0..n] \X ToolIds \X ToolIds :
                WellFormedPlacement(q[1], q[2])},
      chars \in [1..n -> SampleChars] }

IdleTruncate ==
    /\ tMessages = <<>>
    /\ tTarget = 0
    /\ tSystem = 0
    /\ tTools = 0
    /\ tpc = "idle"
    /\ tPairs = <<>>
    /\ tI = 0
    /\ tInclude = {}
    /\ tCurrent = 0
    /\ tResult = NoResult

InitTruncate ==
    /\ tMessages \in UNION {Conversations(n) : n \in 0..MaxMessages}
    /\ tTarget \in SampleTargets
    /\ tSystem \in SampleSystemTokens
    /\ tTools \in SampleToolsTokens
    /\ tpc = "start"
    /\ tPairs = <<>>
    /\ tI = 0
    /\ tInclude = {}
    /\ tCurrent = 0
    /\ tResult = NoResult

\* availableForMessages <= 0: nothing can be kept
TRejectAll ==
    /\ tpc = "start"
    /\ availableForMessages(tTarget, tSystem, tTools) <= 0
    /\ tResult' = [messages |-> <<>>, truncated |-> TRUE,
                   removedCount |-> Len(tMessages),
                   truncationNotice |-> SystemExceedsNotice]
    /\ tpc' = "done"
    /\ UNCHANGED <<tMessages, tTarget, tSystem, tTools, tPairs, tI, tInclude, tCurrent>>
    /\ UNCHANGED <<keyVars, streamVars, reqVars, convVars,
                   pairVars, oauthVars, anthVars,
                   aggVars>>

TEmpty ==
    /\ tpc = "start"
    /\ availableForMessages(tTarget, tSystem, tTools) > 0
    /\ Len(tMessages) = 0
    /\ tResult' = [messages |-> <<>>, truncated |-> FALSE, removedCount |-> 0,
                   truncationNotice |-> NoNotice]
    /\ tpc' = "done"
    /\ UNCHANGED <<tMessages, tTarget, tSystem, tTools, tPairs, tI, tInclude, tCurrent>>
    /\ UNCHANGED <<keyVars, streamVars, reqVars, convVars,
                   pairVars, oauthVars, anthVars,
                   aggVars>>

\* the id maps and `pairs` are built; the walk starts at the newest message
TBegin ==
    /\ tpc = "start"
    /\ availableForMessages(tTarget, tSystem, tTools) > 0
    /\ Len(tMessages) > 0
    /\ tPairs' = findPairs(tMessages)
    /\ tI' = Len(tMessages)
    /\ tpc' = "walk"
    /\ UNCHANGED <<tMessages, tTarget, tSystem, tTools, tInclude, tCurrent, tResult>>
    /\ UNCHANGED <<keyVars, streamVars, reqVars, convVars,
                   pairVars, oauthVars, anthVars,
                   aggVars>>

TWalk ==
    /\ tpc = "walk"
    /\ tI >= 1
    /\ LET next == walkStep(tMessages, tPairs,
                            availableForMessages(tTarget, tSystem, tTools),
                            tI, tInclude, tCurrent)
       IN  /\ tInclude' = next[1]
           /\ tCurrent' = next[2]
    /\ tI' = tI - 1
    /\ UNCHANGED <<tMessages, tTarget, tSystem, tTools, tpc, tPairs, tResult>>
    /\ UNCHANGED <<keyVars, streamVars, reqVars, convVars,
                   pairVars, oauthVars, anthVars,
                   aggVars>>

TReturn ==
    /\ tpc = "walk"
    /\ tI = 0
    /\ tResult' = truncationResult(tMessages, tInclude)
    /\ tpc' = "done"
    /\ UNCHANGED <<tMessages, tTarget, tSystem, tTools, tPairs, tI, tInclude, tCurrent>>
    /\ UNCHANGED <<keyVars, streamVars, reqVars, convVars,
                   pairVars, oauthVars, anthVars,
                   aggVars>>

----------------------------------------------------------------------------
(* Responses-SSE stream translator.                                        *)
(* The upstream text is a sequence of atoms: a line feed, the `data:`      *)
(* prefix of a line, or one half of a JSON payload (so that a chunk        *)
(* boundary can fall inside a payload).  A payload atom carries the event  *)
(* it encodes and `rnd`, what Date.now() and Math.random() yield when the  *)
(* frame is decoded.                                                       *)

NoItem == [type |-> "", role |-> "", id |-> <<>>, call_id |-> <<>>,
           text |-> <<>>, name |-> <<>>, arguments |-> <<>>]

NoUsage == [defined |-> FALSE, input_tokens |-> 0, output_tokens |-> 0]

Event(type, respId, delta, item, usage) ==
    [type |-> type, respId |-> respId, delta |-> delta, item |-> item, usage |-> usage]

NoEvent == Event("", <<>>, Undefined, NoItem, NoUsage)

LF == [ch |-> "\n", part |-> 0, ev |-> NoEvent, rnd |-> ""]

DataPrefix == [ch |-> "data:", part |-> 0, ev |-> NoEvent, rnd |-> ""]

Json(ev, part, rnd) == [ch |-> "json", part |-> part, ev |-> ev, rnd |-> rnd]

\* JSON.parse(data): the payload when `data` is the two halves of one payload
\* that is valid JSON; it throws otherwise
jsonParses(data) ==
    /\ Len(data) = 2
    /\ data[1].ch = "json" /\ data[2].ch = "json"
    /\ data[1].part = 1 /\ data[2].part = 2
    /\ data[1].ev = data[2].ev /\ data[1].rnd = data[2].rnd
    /\ data[1].ev.type /= "<malformed>"

createChatGptStreamState(model) ==
    [buffer |-> <<>>, id |-> <<"chatcmpl-", "now">>, model |-> model,
     roleSent |-> FALSE, sawTextDelta |-> FALSE, toolCallsSeen |-> FALSE,
     toolCallIndex |-> 0, processedItemIds |-> {}]

NoToolCall == [index |-> -1, id |-> <<>>, name |-> <<>>, arguments |-> <<>>]

Delta(role, content, toolCall) == [role |-> role, content |-> content, tool_call |-> toolCall]

NoMappedUsage == [defined |-> FALSE, prompt_tokens |-> 0, completion_tokens |-> 0,
                  total_tokens |-> 0]

createChatChunk(state, delta, finishReason, usage) ==
    [id |-> state.id, model |-> state.model, delta |-> delta,
     finish_reason |-> finishReason, usage |-> usage]

mapUsage(usage) ==
    IF ~usage.defined THEN NoMappedUsage
    ELSE [defined |-> TRUE, prompt_tokens |-> usage.input_tokens,
          completion_tokens |-> usage.output_tokens,
          total_tokens |-> usage.input_tokens + usage.output_tokens]

NoChunk == createChatChunk([id |-> <<>>, model |-> <<>>], Delta("", Undefined, NoToolCall),
                           "", NoMappedUsage)

ChunkResult(data) == [type |-> "chunk", data |-> data]

DoneResult == [type |-> "done", data |-> NoChunk]

\* String(id).replace(/^resp_/, '')
stripRespPrefix(id) == IF startsWith(id, "resp_") THEN Tail(id) ELSE id

\* item.id || item.call_id || `${item.type}_${Date.now()}_${Math.random()...}`
itemIdentifier(item, rnd) ==
    Or(item.id, Or(item.call_id, <<item.type, "_", rnd>>))

\* Mutant: the text of a message item is emitted whether or not a delta was seen
processItem_IgnoreDelta(state, results, item) ==
    LET role == IF state.roleSent THEN "" ELSE "assistant"
    IN  IF item.type = "message" /\ item.role = "assistant" /\ item.text /= <<>>
        THEN [state |-> [state EXCEPT !.roleSent = TRUE],
              results |-> Append(results,
                  ChunkResult(createChatChunk(state,
                      Delta(role, item.text, NoToolCall), "null", NoMappedUsage)))]
        ELSE [state |-> state, results |-> results]

\* Mutant: every tool-call chunk carries the role
processItem_RoleOnEveryCall(state, results, item) ==
    LET role == IF state.roleSent THEN "" ELSE "assistant"
        toolCallId == Or(item.call_id, Or(item.id, <<"call_", ToString(state.toolCallIndex)>>))
    IN  IF item.type = "message" /\ item.role = "assistant" /\ ~state.sawTextDelta
        THEN IF item.text /= <<>>
             THEN [state |-> [state EXCEPT !.roleSent = TRUE],
                   results |-> Append(results,
                       ChunkResult(createChatChunk(state,
                           Delta(role, item.text, NoToolCall), "null", NoMappedUsage)))]
             ELSE [state |-> state, results |-> results]
        ELSE IF item.type = "function_call"
        THEN [state |-> [state EXCEPT !.toolCallsSeen = TRUE,
                                      !.toolCallIndex = @ + 1,
                                      !.roleSent = TRUE],
              results |-> Append(results,
                  ChunkResult(createChatChunk(state,
                      Delta("assistant", Undefined,
                            [index |-> state.toolCallIndex, id |-> toolCallId,
                             name |-> Or(item.name, <<"unknown">>),
                             arguments |-> item.arguments]),
                      "null", NoMappedUsage)))]
        ELSE [state |-> state, results |-> results]

\* Mutant: the tool-call index is read but not advanced
processItem_NoIncrement(state, results, item) ==
    LET role == IF state.roleSent THEN "" ELSE "assistant"
        toolCallId == Or(item.call_id, Or(item.id, <<"call_", ToString(state.toolCallIndex)>>))
    IN  IF item.type = "message" /\ item.role = "assistant" /\ ~state.sawTextDelta
        THEN IF item.text /= <<>>
             THEN [state |-> [state EXCEPT !.roleSent = TRUE],
                   results |-> Append(results,
                       ChunkResult(createChatChunk(state,
                           Delta(role, item.text, NoToolCall), "null", NoMappedUsage)))]
             ELSE [state |-> state, results |-> results]
        ELSE IF item.type = "function_call"
        THEN [state |-> [state EXCEPT !.toolCallsSeen = TRUE, !.roleSent = TRUE],
              results |-> Append(results,
                  ChunkResult(createChatChunk(state,
                      Delta(role, Undefined,
                            [index |-> state.toolCallIndex, id |-> toolCallId,
                             name |-> Or(item.name, <<"unknown">>),
                             arguments |-> item.arguments]),
                      "null", NoMappedUsage)))]
        ELSE [state |-> state, results |-> results]

\* The branch for `response.output_item.done` once the item is known to be new
processItem(state, results, item) ==
    LET role == IF state.roleSent THEN "" ELSE "assistant"
        toolCallId == Or(item.call_id, Or(item.id, <<"call_", ToString(state.toolCallIndex)>>))
    IN  IF item.type = "message" /\ item.role = "assistant" /\ ~state.sawTextDelta
        THEN IF item.text /= <<>>
             THEN [state |-> [state EXCEPT !.roleSent = TRUE],
                   results |-> Append(results,
                       ChunkResult(createChatChunk(state,
                           Delta(role, item.text, NoToolCall), "null", NoMappedUsage)))]
             ELSE [state |-> state, results |-> results]
        ELSE IF item.type = "function_call"
        THEN [state |-> [state EXCEPT !.toolCallsSeen = TRUE,
                                      !.toolCallIndex = @ + 1,
                                      !.roleSent = TRUE],
              results |-> Append(results,
                  ChunkResult(createChatChunk(state,
                      Delta(role, Undefined,
                            [index |-> state.toolCallIndex, id |-> toolCallId,
                             name |-> Or(item.name, <<"unknown">>),
                             arguments |-> item.arguments]),
                      "null", NoMappedUsage)))]
        ELSE [state |-> state, results |-> results]

\* The body of the loop over lines for one decoded payload
processPayload(state, results, payload, rnd) ==
    LET kind == payload.type
        itemId == itemIdentifier(payload.item, rnd)
    IN  IF kind = "response.created" /\ ~Falsy(payload.respId)
        THEN [state |-> [state EXCEPT !.id = <<"chatcmpl-">> \o stripRespPrefix(payload.respId)],
              results |-> results]
        ELSE IF kind = "response.output_text.delta" /\ payload.delta /= Undefined
        THEN [state |-> [state EXCEPT !.roleSent = TRUE, !.sawTextDelta = TRUE],
              results |-> Append(results,
                  ChunkResult(createChatChunk(state,
                      Delta(IF state.roleSent THEN "" ELSE "assistant", payload.delta,
                            NoToolCall),
                      "null", NoMappedUsage)))]
        ELSE IF kind = "response.output_item.done" /\ payload.item /= NoItem
        THEN IF itemId \in state.processedItemIds
             THEN [state |-> state, results |-> results]
             ELSE processItem([state EXCEPT !.processedItemIds = @ \cup {itemId}],
                              results, payload.item)
        ELSE IF kind = "response.completed"
        THEN [state |-> state,
              results |-> results \o
                  << ChunkResult(createChatChunk(state, Delta("", Undefined, NoToolCall),
                         IF state.toolCallsSeen THEN "tool_calls" ELSE "stop",
                         mapUsage(payload.usage))),
                     DoneResult >>]
        ELSE [state |-> state, results |-> results]

\* Mutant: a payload that fails to parse discards the results gathered so far
processLine_ParseFailureDropsResults(acc, line) ==
    LET data == Tail(line)
    IN  IF ~startsWith(line, DataPrefix) THEN acc
        ELSE IF data = <<>> THEN acc
        ELSE IF ~jsonParses(data) THEN [state |-> acc.state, results |-> <<>>]
        ELSE processPayload(acc.state, acc.results, data[1].ev, data[1].rnd)

\* One line of a frame: skipped unless it is `data:` followed by valid JSON
processLine(acc, line) ==
    LET data == Tail(line)
    IN  IF ~startsWith(line, DataPrefix) THEN acc
        ELSE IF data = <<>> THEN acc
        ELSE IF ~jsonParses(data) THEN acc
        ELSE processPayload(acc.state, acc.results, data[1].ev, data[1].rnd)

RECURSIVE processLines(_, _)
processLines(acc, lines) ==
    IF lines = <<>> THEN acc
    ELSE processLines(processLine(acc, Head(lines)), Tail(lines))

RECURSIVE processParts(_, _)
processParts(acc, parts) ==
    IF parts = <<>> THEN acc
    ELSE processParts(processLines(acc, split(Head(parts), LF)), Tail(parts))

\* state.buffer.split('\n\n')
RECURSIVE splitBlankLine(_)
splitBlankLine(s) ==
    LET hits == {i \in 1..(Len(s) - 1) : s[i] = LF /\ s[i + 1] = LF}
        i == CHOOSE h \in hits : \A g \in hits : h <= g
    IN  IF hits = {} THEN <<s>>
        ELSE <<SubSeq(s, 1, i - 1)>> \o splitBlankLine(SubSeq(s, i + 2, Len(s)))

\* Mutant: the incomplete fragment after the last blank line is not retained
processChatGptChunk_DropRest(state, chunk) ==
    LET all == splitBlankLine(state.buffer \o chunk)
        parts == SubSeq(all, 1, Len(all) - 1)
    IN  processParts([state |-> [state EXCEPT !.buffer = <<>>], results |-> <<>>], parts)

\* [state, results] after processChatGptChunk(state, chunk)
processChatGptChunk(state, chunk) ==
    LET all == splitBlankLine(state.buffer \o chunk)
        parts == SubSeq(all, 1, Len(all) - 1)
        rest == all[Len(all)]
    IN  processParts([state |-> [state EXCEPT !.buffer = rest], results |-> <<>>], parts)

DoneFrame == [line |-> "data: [DONE]", json |-> NoChunk]

\* `data: ${JSON.stringify(result.data)}\n\n` for a chunk, `data: [DONE]\n\n` for done
frameOf(result) ==
    IF result.type = "chunk" THEN [line |-> "data: <json>", json |-> result.data]
    ELSE DoneFrame

\* The frames the loop `for (const result of results)` writes
RECURSIVE framesOf(_)
framesOf(results) ==
    IF results = <<>> THEN <<>>
    ELSE (IF Head(results).type \in {"chunk", "done"} THEN <<frameOf(Head(results))>> ELSE <<>>)
         \o framesOf(Tail(results))

----------------------------------------------------------------------------
(* SpecStream: the streaming loop of handleChatGptProxy on one upstream    *)
(* response, one reader.read() per step                                    *)

Item(type, role, id, callId, text, name, arguments) ==
    [type |-> type, role |-> role, id |-> id, call_id |-> callId, text |-> text,
     name |-> name, arguments |-> arguments]

EvCreated == Event("response.created", <<"resp_", "abc">>, Undefined, NoItem, NoUsage)

EvDelta == Event("response.output_text.delta", <<>>, <<"Hi">>, NoItem, NoUsage)

EvMessage ==
    Event("response.output_item.done", <<>>, Undefined,
          Item("message", "assistant", <<"msg_1">>, <<>>, <<"Hi there">>, <<>>, <<>>), NoUsage)

EvCall ==
    Event("response.output_item.done", <<>>, Undefined,
          Item("function_call", "", <<"fc_1">>, <<"call_1">>, <<>>, <<"get_weather">>,
               <<"{}">>), NoUsage)

EvCallNoId ==
    Event("response.output_item.done", <<>>, Undefined,
          Item("function_call", "", <<>>, <<"call_2">>, <<>>, <<"get_time">>, <<"{}">>),
          NoUsage)

EvCallAnonymous ==
    Event("response.output_item.done", <<>>, Undefined,
          Item("function_call", "", <<>>, <<>>, <<>>, <<"get_date">>, <<"{}">>), NoUsage)

EvCompleted ==
    Event("response.completed", <<>>, Undefined, NoItem,
          [defined |-> TRUE, input_tokens |-> 7, output_tokens |-> 5])

EvMalformed == Event("<malformed>", <<>>, Undefined, NoItem, NoUsage)

SampleRandom == {"r1", "r2"}

Arrival(ev, rnd) == [ev |-> ev, rnd |-> rnd]

\* The frames an upstream can send, each with what the clock and the random
\* generator yield while it is decoded (which only an item without id and
\* call_id makes use of)
SampleArrivals ==
    {Arrival(ev, "r1") : ev \in {EvCreated, EvDelta, EvMessage, EvCall, EvCallNoId,
                                EvCompleted, EvMalformed}}
    \cup {Arrival(EvCallAnonymous, rnd) : rnd \in SampleRandom}

\* `data: <json>\n\n`
FrameText(a) == <<DataPrefix, Json(a.ev, 1, a.rnd), Json(a.ev, 2, a.rnd), LF, LF>>

RECURSIVE StreamText(_)
StreamText(arrivals) ==
    IF arrivals = <<>> THEN <<>>
    ELSE FrameText(Head(arrivals)) \o StreamText(Tail(arrivals))

\* The upstream text: whole frames, or the same with the blank line that ends
\* the last frame missing (the connection closed early)
UpstreamTexts ==
    LET whole == {StreamText(as) : as \in SeqsUpTo(SampleArrivals, MaxEvents)}
    IN  whole \cup {SubSeq(t, 1, Len(t) - 2) : t \in whole \ {<<>>}}

SampleStreamModel == <<"gpt-5.2-codex">>

IdleStream ==
    /\ sText = <<>>
    /\ sPos = 0
    /\ sState = createChatGptStreamState(<<>>)
    /\ sWritten = <<>>
    /\ spc = "idle"
    /\ sReleased = FALSE
    /\ sClientGone = FALSE

InitStream ==
    /\ sText \in UpstreamTexts
    /\ sPos = 0
    /\ sState = createChatGptStreamState(SampleStreamModel)
    /\ sWritten = <<>>
    /\ spc = "reading"
    /\ sReleased = FALSE
    /\ sClientGone = FALSE

\* reader.read() yields the next k atoms; the chunk is processed and every
\* result written (a write to a client that is gone is dropped)
SReadChunk ==
    /\ spc = "reading"
    /\ \E k \in 1..(Len(sText) - sPos) :
         LET out == processChatGptChunk(sState, SubSeq(sText, sPos + 1, sPos + k))
         IN  /\ sPos' = sPos + k
             /\ sState' = out.state
             /\ sWritten' = IF sClientGone THEN sWritten
                            ELSE sWritten \o framesOf(out.results)
    /\ UNCHANGED <<sText, spc, sReleased, sClientGone>>
    /\ UNCHANGED <<keyVars, truncVars, reqVars, convVars,
                   pairVars, oauthVars, anthVars,
                   aggVars>>

\* the client disconnects while the results of a chunk are being written:
\* the first j frames arrive, and the failed write is either dropped or
\* rejects and ends the callback
SReadChunkClientLeaves ==
    /\ spc = "reading"
    /\ ~sClientGone
    /\ \E k \in 1..(Len(sText) - sPos) :
         LET out == processChatGptChunk(sState, SubSeq(sText, sPos + 1, sPos + k))
             frames == framesOf(out.results)
         IN  /\ frames /= <<>>
             /\ \E j \in 0..(Len(frames) - 1) : sWritten' = sWritten \o SubSeq(frames, 1, j)
             /\ sPos' = sPos + k
             /\ sState' = out.state
    /\ sClientGone' = TRUE
    /\ spc' \in {"reading", "failed"}
    /\ UNCHANGED <<sText, sReleased>>
    /\ UNCHANGED <<keyVars, truncVars, reqVars, convVars,
                   pairVars, oauthVars, anthVars,
                   aggVars>>

\* reader.read() rejects: the upstream connection broke
SReadThrows ==
    /\ spc = "reading"
    /\ sPos < Len(sText)
    /\ spc' = "failed"
    /\ UNCHANGED <<sText, sPos, sState, sWritten, sReleased, sClientGone>>
    /\ UNCHANGED <<keyVars, truncVars, reqVars, convVars,
                   pairVars, oauthVars, anthVars,
                   aggVars>>

\* reader.read() yields done: the loop breaks and reader.releaseLock() runs
SReadDone ==
    /\ spc = "reading"
    /\ sPos = Len(sText)
    /\ spc' = "closed"
    /\ sReleased' = TRUE
    /\ UNCHANGED <<sText, sPos, sState, sWritten, sClientGone>>
    /\ UNCHANGED <<keyVars, truncVars, reqVars, convVars,
                   pairVars, oauthVars, anthVars,
                   aggVars>>

----------------------------------------------------------------------------
(* SpecAggregate: the non-streaming path of handleChatGptProxy, which      *)
(* reads the same upstream stream and folds the results of                 *)
(* processChatGptChunk into one chat.completion body                       *)

Null == <<"<null>">>

ZeroUsage == [defined |-> TRUE, prompt_tokens |-> 0, completion_tokens |-> 0,
              total_tokens |-> 0]

Aggregate(content, toolCalls, usage) ==
    [fullContent |-> content, toolCalls |-> toolCalls, usage |-> usage]

\* the branch `else if (tc.index !== undefined)`: the arguments of a tool
\* call without id are appended to the first entry with its index
mergeByIndex(toolCalls, tc) ==
    LET hits == {i \in 1..Len(toolCalls) : toolCalls[i].index = tc.index}
        first == CHOOSE i \in hits : \A j \in hits : i <= j
    IN  IF hits = {} \/ Falsy(tc.arguments) THEN toolCalls
        ELSE [toolCalls EXCEPT ![first].arguments = @ \o tc.arguments]

\* the body of `for (const tc of delta.tool_calls)`
foldToolCall(toolCalls, tc) ==
    IF ~Falsy(tc.id)
    THEN IF \E i \in 1..Len(toolCalls) : toolCalls[i].id = tc.id THEN toolCalls
         ELSE Append(toolCalls, tc)
    ELSE mergeByIndex(toolCalls, tc)

\* the body of `for (const result of results)`
foldResult(acc, result) ==
    IF result.type /= "chunk" THEN acc
    ELSE LET delta == result.data.delta
         IN  Aggregate(
                 IF Falsy(delta.content) THEN acc.fullContent
                 ELSE acc.fullContent \o delta.content,
                 IF delta.tool_call = NoToolCall THEN acc.toolCalls
                 ELSE foldToolCall(acc.toolCalls, delta.tool_call),
                 IF result.data.usage.defined THEN result.data.usage ELSE acc.usage)

RECURSIVE foldResults(_, _)
foldResults(acc, results) ==
    IF results = <<>> THEN acc
    ELSE foldResults(foldResult(acc, Head(results)), Tail(results))

\* the body c.json returns
aggregatedResponse(state, model, acc) ==
    [id |-> state.id, model |-> model,
     content |-> IF acc.fullContent = <<>> THEN Null ELSE acc.fullContent,
     tool_calls |-> acc.toolCalls,
     finish_reason |-> IF Len(acc.toolCalls) > 0 THEN "tool_calls" ELSE "stop",
     usage |-> IF acc.usage.defined THEN acc.usage ELSE ZeroUsage]

NoAggregated == aggregatedResponse([id |-> <<>>], <<>>, Aggregate(<<>>, <<>>, NoMappedUsage))

EvCallSameCallId ==
    Event("response.output_item.done", <<>>, Undefined,
          Item("function_call", "", <<"fc_2">>, <<"call_1">>, <<>>, <<"get_weather">>,
               <<"{\"city\":1}">>), NoUsage)

EvCompletedNoUsage == Event("response.completed", <<>>, Undefined, NoItem, NoUsage)

AggregateArrivals ==
    {Arrival(ev, "r1") : ev \in {EvDelta, EvMessage, EvCall, EvCallSameCallId, EvCompleted,
                                EvCompletedNoUsage}}

AggregateTexts == {StreamText(as) : as \in SeqsUpTo(AggregateArrivals, MaxAggregateEvents)}

IdleAggregate ==
    /\ gText = <<>>
    /\ gPos = 0
    /\ gState = <<>>
    /\ gContent = <<>>
    /\ gToolCalls = <<>>
    /\ gUsage = NoMappedUsage
    /\ gpc = "idle"
    /\ gResponse = NoAggregated

InitAggregate ==
    /\ gText \in AggregateTexts
    /\ gPos = 0
    /\ gState = createChatGptStreamState(SampleStreamModel)
    /\ gContent = <<>>
    /\ gToolCalls = <<>>
    /\ gUsage = NoMappedUsage
    /\ gpc = "reading"
    /\ gResponse = NoAggregated

\* reader.read() yields the next k atoms: the chunk is processed and its
\* results folded into fullContent, toolCallsMap and usage
GReadChunk ==
    /\ gpc = "reading"
    /\ \E k \in 1..(Len(gText) - gPos) :
         LET out == processChatGptChunk(gState, SubSeq(gText, gPos + 1, gPos + k))
             acc == foldResults(Aggregate(gContent, gToolCalls, gUsage), out.results)
         IN  /\ gPos' = gPos + k
             /\ gState' = out.state
             /\ gContent' = acc.fullContent
             /\ gToolCalls' = acc.toolCalls
             /\ gUsage' = acc.usage
    /\ UNCHANGED <<gText, gpc, gResponse>>
    /\ UNCHANGED <<keyVars, truncVars, streamVars, reqVars, convVars, pairVars, oauthVars,
                   anthVars>>

\* reader.read() yields done: the loop breaks and the response is returned
GReadDone ==
    /\ gpc = "reading"
    /\ gPos = Len(gText)
    /\ gResponse' = aggregatedResponse(gState, SampleStreamModel,
                                       Aggregate(gContent, gToolCalls, gUsage))
    /\ gpc' = "done"
    /\ UNCHANGED <<gText, gPos, gState, gContent, gToolCalls, gUsage>>
    /\ UNCHANGED <<keyVars, truncVars, streamVars, reqVars, convVars, pairVars, oauthVars,
                   anthVars>>

----------------------------------------------------------------------------
(* SpecPair: two streamed requests served by one process.  Each call of    *)
(* handleChatGptProxy has its own reader, decoder and `state`; the reads   *)
(* of the two streaming loops interleave in any order.                     *)

Requests == {1, 2}

\* Mutant: the stream state is one module-level object
stateOf_Shared(states, r) == states[1]

\* the `state` the streaming callback of request r closes over
stateOf(states, r) == states[r]

PairArrivals == {Arrival(ev, "r1") : ev \in {EvCreated, EvDelta, EvMessage, EvCall}}

PairTexts == {StreamText(as) : as \in SeqsUpTo(PairArrivals, MaxPairEvents)}

PairModels == <<<<"gpt-5.2-codex">>, <<"gpt-5.2">>>>

\* where the next chunk of a stream read up to pos can end: in the middle of
\* the payload of the frame (of 5 atoms) that pos is in, or at its end
ChunkEnds(pos) == {e \in {pos - (pos % 5) + 2, pos - (pos % 5) + 5} : e > pos}

IdlePair ==
    /\ pText = <<>>
    /\ pPos = <<>>
    /\ pState = <<>>
    /\ pWritten = <<>>
    /\ pAlone = <<>>
    /\ ppc = <<>>

InitPair ==
    /\ pText \in [Requests -> PairTexts]
    /\ pPos = [r \in Requests |-> 0]
    /\ pState = [r \in Requests |-> createChatGptStreamState(PairModels[r])]
    /\ pWritten = [r \in Requests |-> <<>>]
    /\ pAlone = [r \in Requests |->
                   [state |-> createChatGptStreamState(PairModels[r]), written |-> <<>>]]
    /\ ppc = [r \in Requests |-> "reading"]

\* reader.read() of request r yields the next chunk of its upstream; the
\* chunk is processed on the request's state and every result written to
\* the request's client
PReadChunk ==
    \E r \in Requests :
        /\ ppc[r] = "reading"
        /\ pPos[r] < Len(pText[r])
        /\ \E end \in ChunkEnds(pPos[r]) :
             LET k == end - pPos[r]
                 chunk == SubSeq(pText[r], pPos[r] + 1, end)
                 out == processChatGptChunk(stateOf(pState, r), chunk)
                 alone == processChatGptChunk(pAlone[r].state, chunk)
             IN  /\ pPos' = [pPos EXCEPT ![r] = @ + k]
                 /\ pState' = [pState EXCEPT ![r] = out.state]
                 /\ pWritten' = [pWritten EXCEPT ![r] = @ \o framesOf(out.results)]
                 /\ pAlone' = [pAlone EXCEPT
                                 ![r] = [state |-> alone.state,
                                         written |-> @.written \o framesOf(alone.results)]]
        /\ UNCHANGED <<pText, ppc>>
        /\ UNCHANGED <<keyVars, truncVars, streamVars, reqVars, convVars, oauthVars,
                       anthVars,
                   aggVars>>

\* reader.read() of request r yields done
PReadDone ==
    \E r \in Requests :
        /\ ppc[r] = "reading"
        /\ pPos[r] = Len(pText[r])
        /\ ppc' = [ppc EXCEPT ![r] = "closed"]
        /\ UNCHANGED <<pText, pPos, pState, pWritten, pAlone>>
        /\ UNCHANGED <<keyVars, truncVars, streamVars, reqVars, convVars, oauthVars,
                       anthVars,
                   aggVars>>

----------------------------------------------------------------------------
(* The Anthropic-SSE translation: the state machine of the converter      *)
(* module (createConverterState, processChunk), as the specification's    *)
(* StreamTranslator section describes it, and the streaming loop of       *)
(* handleChatCompletion that drives it.                                    *)

NoContentBlock == [type |-> "", id |-> <<>>, name |-> <<>>]

NoBlockDelta == [type |-> "", text |-> <<>>]

AnthropicEvent(type, id, index, block, delta, stopReason) ==
    [type |-> type, id |-> id, index |-> index, content_block |-> block, delta |-> delta,
     stop_reason |-> stopReason]

createConverterState ==
    [buffer |-> <<>>, id |-> <<"chatcmpl-", "now">>, model |-> <<>>, roleSent |-> FALSE,
     toolCallIndex |-> 0, toolBlocks |-> <<>>]

\* stop_reason in the words of finish_reason
mapStopReason(stopReason) ==
    IF stopReason = "tool_use" THEN "tool_calls"
    ELSE IF stopReason = "max_tokens" THEN "length"
    ELSE "stop"

\* one chunk joins the results: it carries the role when it is the first
emitChunk(state, results, content, toolCall, finishReason) ==
    [state |-> [state EXCEPT !.roleSent = TRUE],
     results |-> Append(results,
         ChunkResult(createChatChunk(state,
             Delta(IF state.roleSent THEN "" ELSE "assistant", content, toolCall),
             finishReason, NoMappedUsage)))]

\* what one decoded Anthropic event does to the state and the results
processAnthropicEvent(state, results, event) ==
    LET kind == event.type
        index == event.index
        open == index \in DOMAIN state.toolBlocks
    IN  IF kind = "message_start"
        THEN [state |-> [state EXCEPT !.id = <<"chatcmpl-">> \o event.id], results |-> results]
        ELSE IF kind = "content_block_start" /\ event.content_block.type = "tool_use"
        THEN [state |-> [state EXCEPT
                  !.toolBlocks = [i \in DOMAIN @ \cup {index} |->
                      IF i = index
                      THEN [id |-> event.content_block.id, name |-> event.content_block.name,
                            arguments |-> <<>>]
                      ELSE @[i]]],
              results |-> results]
        ELSE IF kind = "content_block_delta" /\ event.delta.type = "text_delta"
        THEN emitChunk(state, results, event.delta.text, NoToolCall, "null")
        ELSE IF kind = "content_block_delta" /\ event.delta.type = "input_json_delta" /\ open
        THEN [state |-> [state EXCEPT !.toolBlocks[index].arguments = @ \o event.delta.text],
              results |-> results]
        ELSE IF kind = "content_block_stop" /\ open
        THEN LET block == state.toolBlocks[index]
                 closed == [state EXCEPT
                     !.toolCallIndex = @ + 1,
                     !.toolBlocks = [i \in DOMAIN @ \ {index} |-> @[i]]]
             IN  emitChunk(closed, results, Undefined,
                           [index |-> state.toolCallIndex, id |-> block.id,
                            name |-> block.name, arguments |-> block.arguments],
                           "null")
        ELSE IF kind = "message_delta"
        THEN emitChunk(state, results, Undefined, NoToolCall, mapStopReason(event.stop_reason))
        ELSE IF kind = "message_stop"
        THEN [state |-> state, results |-> Append(results, DoneResult)]
        ELSE [state |-> state, results |-> results]

\* One line of a frame: skipped unless it is `data:` followed by valid JSON
processAnthropicLine(acc, line) ==
    LET data == Tail(line)
    IN  IF ~startsWith(line, DataPrefix) THEN acc
        ELSE IF data = <<>> THEN acc
        ELSE IF ~jsonParses(data) THEN acc
        ELSE processAnthropicEvent(acc.state, acc.results, data[1].ev)

RECURSIVE processAnthropicLines(_, _)
processAnthropicLines(acc, lines) ==
    IF lines = <<>> THEN acc
    ELSE processAnthropicLines(processAnthropicLine(acc, Head(lines)), Tail(lines))

RECURSIVE processAnthropicParts(_, _)
processAnthropicParts(acc, parts) ==
    IF parts = <<>> THEN acc
    ELSE processAnthropicParts(processAnthropicLines(acc, split(Head(parts), LF)), Tail(parts))

\* [state, results] after processChunk(state, chunk, false)
processChunk(state, chunk) ==
    LET all == splitBlankLine(state.buffer \o chunk)
        parts == SubSeq(all, 1, Len(all) - 1)
        rest == all[Len(all)]
    IN  processAnthropicParts([state |-> [state EXCEPT !.buffer = rest], results |-> <<>>],
                              parts)

\* Mutant: only a result of type chunk is written
writeResult_ChunksOnly(result) ==
    IF result.type = "chunk" THEN <<[line |-> "data: <json>", json |-> result.data]>>
    ELSE <<>>

\* what the body of `for (const result of results)` writes to the client: one
\* frame for a chunk, the sentinel for done, nothing for any other result
writeResult(result) ==
    IF result.type = "chunk" THEN <<[line |-> "data: <json>", json |-> result.data]>>
    ELSE IF result.type = "done" THEN <<DoneFrame>>
    ELSE <<>>

RECURSIVE writeResults(_)
writeResults(results) ==
    IF results = <<>> THEN <<>>
    ELSE writeResult(Head(results)) \o writeResults(Tail(results))

AMessageStart == AnthropicEvent("message_start", <<"msg_", "abc">>, 0, NoContentBlock,
                                NoBlockDelta, "")

ATextDelta == AnthropicEvent("content_block_delta", <<>>, 0, NoContentBlock,
                             [type |-> "text_delta", text |-> <<"Hi">>], "")

AToolStart == AnthropicEvent("content_block_start", <<>>, 1,
                             [type |-> "tool_use", id |-> <<"toolu_1">>, name |-> <<"f">>],
                             NoBlockDelta, "")

AJsonDelta == AnthropicEvent("content_block_delta", <<>>, 1, NoContentBlock,
                             [type |-> "input_json_delta", text |-> <<"{}">>], "")

ABlockStop == AnthropicEvent("content_block_stop", <<>>, 1, NoContentBlock, NoBlockDelta, "")

AMessageDelta == AnthropicEvent("message_delta", <<>>, 0, NoContentBlock, NoBlockDelta,
                                "end_turn")

AMessageStop == AnthropicEvent("message_stop", <<>>, 0, NoContentBlock, NoBlockDelta, "")

AnthropicArrivals ==
    {Arrival(ev, "") : ev \in {AMessageStart, ATextDelta, AToolStart, AJsonDelta, ABlockStop,
                               AMessageDelta, AMessageStop}}

AnthropicTexts == {StreamText(as) : as \in SeqsUpTo(AnthropicArrivals, MaxAnthropicEvents)}

IdleAnthropic ==
    /\ aText = <<>>
    /\ aPos = 0
    /\ aState = <<>>
    /\ aWritten = <<>>
    /\ apc = "idle"

InitAnthropic ==
    /\ aText \in AnthropicTexts
    /\ aPos = 0
    /\ aState = createConverterState
    /\ aWritten = <<>>
    /\ apc = "reading"

\* reader.read() yields the next k atoms of the upstream: the chunk is
\* processed and every result written
AReadChunk ==
    /\ apc = "reading"
    /\ \E k \in 1..(Len(aText) - aPos) :
         LET out == processChunk(aState, SubSeq(aText, aPos + 1, aPos + k))
         IN  /\ aPos' = aPos + k
             /\ aState' = out.state
             /\ aWritten' = aWritten \o writeResults(out.results)
    /\ UNCHANGED <<aText, apc>>
    /\ UNCHANGED <<keyVars, truncVars, streamVars, reqVars, convVars, pairVars, oauthVars,
                   aggVars>>

\* reader.read() yields done: the loop breaks and the reader is released
AReadDone ==
    /\ apc = "reading"
    /\ aPos = Len(aText)
    /\ apc' = "closed"
    /\ UNCHANGED <<aText, aPos, aState, aWritten>>
    /\ UNCHANGED <<keyVars, truncVars, streamVars, reqVars, convVars, pairVars, oauthVars,
                   aggVars>>

----------------------------------------------------------------------------
(* Headers the client can send: a list of tokens, written out as text *)

Mapping(from, to) == [from |-> from, to |-> to]

RoutedToken(maps, key, acct) == [routed |-> TRUE, maps |-> maps, key |-> key, acct |-> acct]

PlainToken(key, acct) == [routed |-> FALSE, maps |-> <<>>, key |-> key, acct |-> acct]

SampleMappingLists ==
    { <<Mapping(<<"o3">>, <<"opus-4.5">>)>>,
      <<Mapping(<<"o3">>, <<"opus-4.5">>), Mapping(<<"o3-mini">>, <<"sonnet-4.5">>)>>,
      <<Mapping(<<"o3-mini">>, <<"claude-", "sonnet-4-5-20250514">>),
        Mapping(<<"o3">>, <<"sonnet-4.5">>)>> }

SampleRoutedTokens ==
    {RoutedToken(ms, <<"sk-ant-xxx">>, Undefined) : ms \in SampleMappingLists}
    \cup {RoutedToken(ms, <<"sk-ant-yyy">>, <<"acct_2">>) : ms \in SampleMappingLists}

SamplePlainTokens ==
    { PlainToken(<<"sk-openai-xxx">>, Undefined),
      PlainToken(<<"sk-chatgpt-xxx">>, <<"acct_1">>),
      PlainToken(<<"hdr", ".", "payload", ".", "sig">>, Undefined) }

SampleBridgeTokens ==
    { PlainToken(<<"sb1.", "A">>, Undefined),
      PlainToken(<<"sb1.", "expired">>, Undefined),
      RoutedToken(<<Mapping(<<"o3">>, <<"opus-4.5">>)>>, <<"sb1.", "B">>, Undefined) }

SampleModels == { <<"o3">>, <<"o3-mini">>, <<"opus-4.5">>, <<"gpt-4o">> }

KeyText(t) == t.key \o (IF t.acct = Undefined THEN <<>> ELSE <<"#">> \o t.acct)

RECURSIVE MappingsText(_)
MappingsText(ms) ==
    IF ms = <<>> THEN <<>>
    ELSE Head(ms).from \o <<"=">> \o Head(ms).to
         \o (IF Tail(ms) = <<>> THEN <<>> ELSE <<",">> \o MappingsText(Tail(ms)))

TokenText(t) ==
    IF t.routed THEN MappingsText(t.maps) \o <<":">> \o KeyText(t) ELSE KeyText(t)

RECURSIVE JoinTokens(_)
JoinTokens(ts) ==
    IF ts = <<>> THEN <<>>
    ELSE TokenText(Head(ts))
         \o (IF Tail(ts) = <<>> THEN <<>> ELSE <<" ">> \o JoinTokens(Tail(ts)))

\* `Authorization: Bearer <tokens separated by one space>`
HeaderText(ts) == <<"Bearer", " ">> \o JoinTokens(ts)

----------------------------------------------------------------------------
(* SpecKeys: parse one header, then resolve one model against it *)

KeyTokenPool == SampleRoutedTokens \cup SamplePlainTokens \cup SampleBridgeTokens

NoParsed ==
    [configs |-> <<>>, defaultKey |-> Undefined, defaultAccountId |-> Undefined,
     hasOAuth |-> FALSE, oauth |-> NoOAuth, oauthError |-> Undefined]

IdleKeys ==
    /\ kTokens = <<>>
    /\ kModel = <<>>
    /\ kParsed = NoParsed
    /\ kRouting = NoRouting
    /\ kpc = "idle"

InitKeys ==
    /\ kTokens \in SeqsUpTo(KeyTokenPool, MaxTokens)
    /\ kModel \in SampleModels
    /\ kParsed = NoParsed
    /\ kRouting = NoRouting
    /\ kpc = "start"

KParse ==
    /\ kpc = "start"
    /\ kParsed' = parseRoutedKeys(HeaderText(kTokens))
    /\ kpc' = "parsed"
    /\ UNCHANGED <<kTokens, kModel, kRouting>>
    /\ UNCHANGED <<truncVars, streamVars, reqVars, convVars,
                   pairVars, oauthVars, anthVars,
                   aggVars>>

KResolve ==
    /\ kpc = "parsed"
    /\ kRouting' = resolveModelRouting(kModel, kParsed)
    /\ kpc' = "resolved"
    /\ UNCHANGED <<kTokens, kModel, kParsed>>
    /\ UNCHANGED <<truncVars, streamVars, reqVars, convVars,
                   pairVars, oauthVars, anthVars,
                   aggVars>>

----------------------------------------------------------------------------
(* Request orchestrator: handleChatCompletion with handleOpenAIProxy and   *)
(* handleChatGptProxy.                                                     *)
(* A request body is [keyCheck, messages, systemChars, tools,              *)
(* tool_choice]: keyCheck is what isCursorKeyCheck(body) returns, messages *)
(* are the non-system messages in the form convertMessages gives them      *)
(* (message records of the context manager), systemChars the content       *)
(* lengths of the client's system messages, tools the tool definitions     *)
(* (<<>> when the body has none) and tool_choice the client's value.       *)

CLAUDE_MAX_CONTEXT_TOKENS == 200000

SAFETY_MARGIN == 5      \* percent: 0.05 in the source

\* Mutant: the safety margin is not applied
effectiveLimit_NoMargin == CLAUDE_MAX_CONTEXT_TOKENS

\* Math.floor(CLAUDE_MAX_CONTEXT_TOKENS * (1 - SAFETY_MARGIN))
effectiveLimit == (CLAUDE_MAX_CONTEXT_TOKENS * (100 - SAFETY_MARGIN)) \div 100

\* a system block { type: 'text', text } with a text of `chars` characters
SystemBlock(kind, chars) == [kind |-> kind, chars |-> chars, cache_control |-> FALSE]

RECURSIVE userSystemBlocks(_)
userSystemBlocks(systemChars) ==
    IF systemChars = <<>> THEN <<>>
    ELSE <<SystemBlock("user", Head(systemChars))>> \o userSystemBlocks(Tail(systemChars))

\* body.system: the two leading blocks, the client's system messages, the reminder
systemBlocks(systemChars) ==
    <<SystemBlock("identity", 57), SystemBlock("proxied", 53)>>
    \o userSystemBlocks(systemChars)
    \o <<SystemBlock("reminder", 141)>>

\* length of the notice text
noticeChars(notice) ==
    CASE notice.kind = "system and tools exceed limit" -> 98
      [] notice.kind = "context truncated" -> 74 + Len(ToString(notice.removed))
      [] OTHER -> 0

RECURSIVE estimateSystemTokens(_)
estimateSystemTokens(system) ==
    IF system = <<>> THEN 0
    ELSE estimateTokens(Head(system).chars) + estimateSystemTokens(Tail(system))

\* JSON.stringify(messages).length: brackets, the messages, the commas between them
RECURSIVE stringifyLength(_)
stringifyLength(messages) ==
    IF messages = <<>> THEN 2
    ELSE Head(messages).chars + (IF Tail(messages) = <<>> THEN 2
                                 ELSE 1 + stringifyLength(Tail(messages)))

estimateMessagesTokens(messages) ==
    estimateTokens(stringifyLength(messages)) + Len(messages) * 4

\* Math.ceil(JSON.stringify(tools).length / 3), 0 without tools
estimateToolsTokens(toolsChars) ==
    IF toolsChars = 0 THEN 0 ELSE (toolsChars + 2) \div 3

estimateRequestTokens(body) ==
    LET systemTokens == estimateSystemTokens(body.system)
        messagesTokens == estimateMessagesTokens(body.messages)
        toolsTokens == estimateToolsTokens(body.toolsChars)
        totalTokens == systemTokens + messagesTokens + toolsTokens
    IN  [systemTokens |-> systemTokens, messagesTokens |-> messagesTokens,
         toolsTokens |-> toolsTokens, totalTokens |-> totalTokens,
         isOverLimit |-> totalTokens > effectiveLimit]

\* A tool definition of the request: form is "function" for the OpenAI shape
\* { type: 'function', function: { name, ... } }, "named" for a definition
\* with a top-level name, "other" for any other object; cache_control tells
\* whether the client's object carries a cache_control field; chars is the
\* length of the converted definition's JSON without that field.
InTool(form, name, cacheControl, chars) ==
    [form |-> form, name |-> name, cache_control |-> cacheControl, chars |-> chars]

\* the `converted` object of one tool, before the cache directive
convertTool(tool) ==
    IF tool.form \in {"function", "named"}
    THEN [form |-> "anthropic", name |-> tool.name, cache_control |-> FALSE,
          chars |-> tool.chars]
    ELSE tool

\* x.cache_control = { type: 'ephemeral' }
withCacheControl(x) == [x EXCEPT !.cache_control = TRUE]

\* body.tools.map(...): the last tool receives the cache directive
convertTools(tools) ==
    [idx \in 1..Len(tools) |->
        IF idx = Len(tools) THEN withCacheControl(convertTool(tools[idx]))
        ELSE convertTool(tools[idx])]

\* body.system[body.system.length - 1].cache_control = { type: 'ephemeral' }
cacheLastSystemBlock(system) ==
    IF Len(system) > 0
    THEN [system EXCEPT ![Len(system)] = withCacheControl(@)]
    ELSE system

\* JSON.stringify(tools).length: brackets, the tools with
\* `,"cache_control":{"type":"ephemeral"}` where present, commas; 0 without tools
RECURSIVE toolsLength(_)
toolsLength(tools) ==
    IF tools = <<>> THEN 0
    ELSE Head(tools).chars + (IF Head(tools).cache_control THEN 37 ELSE 0)
         + (IF Tail(tools) = <<>> THEN 0 ELSE 1 + toolsLength(Tail(tools)))

stringifyToolsLength(tools) == IF tools = <<>> THEN 0 ELSE 2 + toolsLength(tools)

\* A tool_choice value: undefined, null, a string (str) or an object with
\* its `type`, `name` and `function.name` fields (<<>> where absent)
ToolChoice(form, str, type, name, functionName) ==
    [form |-> form, str |-> str, type |-> type, name |-> name,
     functionName |-> functionName]

NoToolChoice == ToolChoice("undefined", <<>>, <<>>, <<>>, <<>>)

NullToolChoice == ToolChoice("null", <<>>, <<>>, <<>>, <<>>)

StringToolChoice(s) == ToolChoice("string", s, <<>>, <<>>, <<>>)

ObjectToolChoice(type, name, functionName) ==
    ToolChoice("object", <<>>, type, name, functionName)

\* body.tool_choice after the if/else chain
mapToolChoice(toolChoice) ==
    IF toolChoice = StringToolChoice(<<"auto">>)
    THEN ObjectToolChoice(<<"auto">>, <<>>, <<>>)
    ELSE IF toolChoice = StringToolChoice(<<"none">>) \/ toolChoice = NullToolChoice
    THEN NoToolChoice
    ELSE IF toolChoice = StringToolChoice(<<"required">>)
    THEN ObjectToolChoice(<<"any">>, <<>>, <<>>)
    ELSE IF toolChoice.form = "object" /\ ~Falsy(toolChoice.functionName)
    THEN ObjectToolChoice(<<"tool">>, toolChoice.functionName, <<>>)
    ELSE toolChoice

NoClean == [messages |-> <<>>, system |-> <<>>, tools |-> <<>>, toolsChars |-> 0,
            tool_choice |-> NoToolChoice]

\* convertMessages, on the request model's messages: an entry with no role
\* (role "": an item that is neither a function call nor its output, such
\* as a reasoning item) is skipped, the others are kept at their converted
\* length
convertedMessages(messages) == SelectSeq(messages, LAMBDA msg : msg.role /= "")

\* cleanBody before the context check
cleanBodyOf(body) ==
    [messages |-> convertedMessages(body.messages),
     system |-> cacheLastSystemBlock(systemBlocks(body.systemChars)),
     tools |-> convertTools(body.tools),
     toolsChars |-> stringifyToolsLength(convertTools(body.tools)),
     tool_choice |-> mapToolChoice(body.tool_choice)]

\* cleanBody after the `truncate` branch
truncatedBody(cleanBody) ==
    LET tokenEstimate == estimateRequestTokens(cleanBody)
        result == truncateMessages(cleanBody.messages, effectiveLimit,
                                   tokenEstimate.systemTokens, tokenEstimate.toolsTokens)
    IN  [cleanBody EXCEPT
           !.messages = result.messages,
           !.system = IF result.truncationNotice /= NoNotice
                      THEN <<SystemBlock("notice", noticeChars(result.truncationNotice))>>
                           \o @
                      ELSE @]

isCursorKeyCheck(body) == body.keyCheck

\* routing after the fallback to the bridge credential's Claude token
routingOf(requestedModel, parsedKeys) ==
    LET routing == resolveModelRouting(requestedModel, parsedKeys)
        resolvedModel == Or(MODEL_ALIASES(requestedModel), requestedModel)
    IN  IF ~routing.found /\ ~Falsy(parsedKeys.oauth.claudeToken)
           /\ startsWith(resolvedModel, "claude-")
        THEN [found |-> TRUE, claudeModel |-> resolvedModel,
              apiKey |-> parsedKeys.oauth.claudeToken]
        ELSE routing

\* parsedKeys.configs.some(c => c.mappings.some(m => m.from === requestedModel))
someMappingFrom(configs, requestedModel) ==
    \E i \in 1..Len(configs) :
        \E j \in 1..Len(configs[i].mappings) : configs[i].mappings[j].from = requestedModel

isClaude(routing, requestedModel, parsedKeys) ==
    /\ routing.found
    /\ \/ startsWith(routing.claudeModel, "claude-")
       \/ isClaudeModel(requestedModel)
       \/ someMappingFrom(parsedKeys.configs, requestedModel)

NoTokenInfo == [token |-> Undefined, accountId |-> Undefined]

useChatGpt(tokenInfo) == ~Falsy(tokenInfo.accountId) \/ isJwtToken(tokenInfo.token)

\* Which back end the request goes to, and with which token
backendOf(routing, requestedModel, parsedKeys) ==
    IF isClaude(routing, requestedModel, parsedKeys)
    THEN [backend |-> "claude",
          tokenInfo |-> [token |-> routing.apiKey, accountId |-> Undefined]]
    ELSE IF ~Falsy(parsedKeys.defaultKey)
    THEN LET tokenInfo == [token |-> parsedKeys.defaultKey,
                           accountId |-> parsedKeys.defaultAccountId]
         IN  [backend |-> IF useChatGpt(tokenInfo) THEN "chatgpt" ELSE "openai",
              tokenInfo |-> tokenInfo]
    ELSE IF ~Falsy(parsedKeys.oauth.chatgptToken)
    THEN [backend |-> "chatgpt",
          tokenInfo |-> [token |-> parsedKeys.oauth.chatgptToken,
                         accountId |-> parsedKeys.oauth.chatgptAccountId]]
    ELSE [backend |-> "none", tokenInfo |-> NoTokenInfo]

usedOAuthClaude(routing, parsedKeys) ==
    ~Falsy(parsedKeys.oauth.claudeToken) /\ routing.apiKey = parsedKeys.oauth.claudeToken

\* An upstream error body: `raw` is its text (shorter than 200 characters in
\* every sample); kind "json" parses to an object with the fields given
\* (Undefined when absent), kind "null" is the JSON text `null`, kind "text"
\* does not parse
ErrorBody(kind, raw, errMessage, errType, message, type, detail) ==
    [kind |-> kind, raw |-> raw, errMessage |-> errMessage, errType |-> errType,
     message |-> message, type |-> type, detail |-> detail]

NoBody == ErrorBody("none", <<>>, Undefined, Undefined, Undefined, Undefined, Undefined)

\* The response returned to the client.  form: "bypass" | "envelope" (an
\* {error:{message,type,code}} object) | "plain" ({error: <string>}) |
\* "verbatim" (the upstream text as it came) | "passthrough" (the upstream
\* JSON re-serialized) | "completion"
Response(status, form, message, type, code, raw) ==
    [status |-> status, form |-> form, message |-> message, type |-> type,
     code |-> code, raw |-> raw]

NoResponse == Response(0, "none", <<>>, Undefined, Undefined, <<>>)

Envelope(status, message, type, code) ==
    Response(status, "envelope", message, type, code, <<>>)

\* Mutant: the Anthropic path wraps an unparseable body as the Responses path does
mapAnthropicError_Wrap(status, body) ==
    Envelope(status, <<"Upstream error (", ToString(status), "): ">> \o body.raw,
             <<"api_error">>, <<"api_error">>)

\* handleChatCompletion's answer to a non-2xx Anthropic response
mapAnthropicError(status, body) ==
    IF body.kind = "json"
    THEN LET errorMessage == Or(body.errMessage, <<"Unknown error">>)
             errorType == Or(body.errType, <<"api_error">>)
             userMessage ==
                CASE errorType = <<"rate_limit_error">> ->
                        <<"Rate limit exceeded: ">> \o errorMessage
                  [] errorType = <<"authentication_error">> ->
                        <<"Authentication failed: ">> \o errorMessage
                  [] errorType = <<"invalid_request_error">> ->
                        <<"Invalid request: ">> \o errorMessage
                  [] OTHER -> errorMessage
         IN  Envelope(status, userMessage, errorType, errorType)
    ELSE Response(status, "verbatim", <<>>, Undefined, Undefined, body.raw)

\* handleChatGptProxy's answer to a non-2xx Responses response
mapChatGptError(status, body) ==
    IF body.kind = "json"
    THEN LET errorMessage ==
                Or(body.errMessage, Or(body.message, Or(body.detail,
                    Or(body.raw, <<"Unknown error">>))))
             errorType == Or(body.errType, Or(body.type, <<"api_error">>))
             userMessage ==
                IF status = 401 \/ errorType = <<"authentication_error">>
                THEN <<"ChatGPT authentication failed: ">> \o errorMessage
                     \o <<". Try re-logging in.">>
                ELSE IF status = 429 \/ errorType = <<"rate_limit_error">>
                THEN <<"ChatGPT rate limit exceeded: ">> \o errorMessage
                ELSE IF status = 400 \/ errorType = <<"invalid_request_error">>
                THEN <<"Invalid request to ChatGPT: ">> \o errorMessage
                ELSE errorMessage
         IN  Envelope(status, userMessage, errorType, errorType)
    ELSE Envelope(status, <<"ChatGPT error (", ToString(status), "): ">> \o body.raw,
                  <<"api_error">>, <<"api_error">>)

\* handleOpenAIProxy's answer to a non-2xx OpenAI response
mapOpenAIError(status, body) ==
    IF body.kind \in {"json", "null"}
    THEN Response(status, "passthrough", <<>>, Undefined, Undefined, body.raw)
    ELSE Response(status, "verbatim", <<>>, Undefined, Undefined, body.raw)

OAuthErrorResponse(oauthError) ==
    Envelope(401, oauthError, <<"authentication_error">>, <<"authentication_error">>)

NotConfiguredResponse(requestedModel) ==
    Envelope(400, <<"Model \"">> \o requestedModel \o <<"\" is not configured.">>,
             <<"invalid_request_error">>, <<"model_not_configured">>)

AccountIdMissingResponse ==
    Envelope(401,
             <<"ChatGPT account id missing. Re-login to refresh your ChatGPT token.">>,
             <<"authentication_error">>, <<"authentication_error">>)

NoMessagesResponse ==
    Response(400, "plain", <<"No messages provided">>, Undefined, Undefined, <<>>)

ContextTooLargeResponse ==
    Envelope(400, <<"Context too large">>, <<"invalid_request_error">>,
             <<"context_length_exceeded">>)

RefreshFailedResponse ==
    Envelope(401, <<"Claude OAuth refresh failed. Please re-authenticate.">>,
             <<"authentication_error">>, <<"authentication_error">>)

BypassResponse == Response(200, "bypass", <<>>, Undefined, Undefined, <<>>)

CompletionResponse == Response(200, "completion", <<>>, Undefined, Undefined, <<>>)

\* One upstream call; status 0 until the answer has come
Call(backend, token, accountId) ==
    [backend |-> backend, token |-> token, accountId |-> accountId, status |-> 0,
     body |-> NoBody]

Answered(calls, status, body) ==
    [calls EXCEPT ![Len(calls)] = [@ EXCEPT !.status = status, !.body = body]]

----------------------------------------------------------------------------
(* SpecRequest: one request through handleChatCompletion, one step per     *)
(* stage of the handler and per upstream answer                            *)

Message(role, useIds, resultIds, chars) ==
    [role |-> role, useIds |-> useIds, resultIds |-> resultIds, chars |-> chars]

SmallMessage == Message("user", <<>>, <<>>, 320)            \* 100 + 4 tokens

HugeMessage == Message("user", <<>>, <<>>, 320000)          \* 100000 + 4 tokens

\* alone in a request without tools or system messages: a total of exactly
\* effectiveLimit, and of effectiveLimit + 1
AtLimitMessage == Message("user", <<>>, <<>>, 607729)

JustOverMessage == Message("user", <<>>, <<>>, 607730)

\* larger alone than the whole budget: 200000 + 4 tokens
OversizedMessage == Message("user", <<>>, <<>>, 640000)

\* an item without a role, such as { type: 'reasoning', summary: [] }
ReasoningMessage == Message("", <<>>, <<>>, 32)

RequestBody(keyCheck, messages, systemChars, tools, toolChoice) ==
    [keyCheck |-> keyCheck, messages |-> messages, systemChars |-> systemChars,
     tools |-> tools, tool_choice |-> toolChoice]

SampleBodies ==
    { RequestBody(TRUE, <<SmallMessage>>, <<>>,<<>>, NoToolChoice),
      RequestBody(FALSE, <<>>, <<64>>,<<>>, NoToolChoice),
      RequestBody(FALSE, <<SmallMessage>>, <<>>,<<>>, NoToolChoice),
      RequestBody(FALSE, <<AtLimitMessage>>, <<>>,<<>>, NoToolChoice),
      RequestBody(FALSE, <<JustOverMessage>>, <<>>,<<>>, NoToolChoice),
      RequestBody(FALSE, <<OversizedMessage>>, <<>>,<<>>, NoToolChoice),
      RequestBody(FALSE, <<ReasoningMessage>>, <<>>,<<>>, NoToolChoice),
      RequestBody(FALSE, <<HugeMessage, HugeMessage, SmallMessage>>, <<>>,<<>>, NoToolChoice) }

OverflowModes == {"error", "truncate", "warn"}

RequestTokenPool ==
    { RoutedToken(<<Mapping(<<"o3">>, <<"opus-4.5">>),
                    Mapping(<<"o3-mini">>, <<"sonnet-4.5">>)>>, <<"sk-ant-xxx">>, Undefined),
      RoutedToken(<<Mapping(<<"o3">>, <<"sonnet-4.5">>)>>, <<"sk-ant-yyy">>, Undefined),
      PlainToken(<<"sk-openai-xxx">>, Undefined),
      PlainToken(<<"sk-chatgpt-xxx">>, <<"acct_1">>),
      PlainToken(<<"hdr", ".", "payload", ".", "sig">>, Undefined),
      PlainToken(<<"sb1.", "A">>, Undefined),
      PlainToken(<<"sb1.", "G">>, Undefined),
      PlainToken(<<"sb1.", "H">>, Undefined),
      PlainToken(<<"sb1.", "expired">>, Undefined),
      RoutedToken(<<Mapping(<<"o3">>, <<"opus-4.5">>)>>, <<"sb1.", "C">>, Undefined),
      RoutedToken(<<Mapping(<<"o3-mini">>, <<"sonnet-4.5">>)>>, <<"sb1.", "tampered">>,
                  Undefined) }

JsonAuthBody ==
    ErrorBody("json", <<"{\"error\":{\"type\":\"authentication_error\",...}}">>,
              <<"invalid bearer token">>, <<"authentication_error">>,
              Undefined, Undefined, Undefined)

JsonDetailBody ==
    ErrorBody("json", <<"{\"detail\":\"Unauthorized\"}">>,
              Undefined, Undefined, Undefined, Undefined, <<"Unauthorized">>)

JsonNullBody ==
    ErrorBody("null", <<"null">>, Undefined, Undefined, Undefined, Undefined, Undefined)

TextBody ==
    ErrorBody("text", <<"upstream connect error">>,
              Undefined, Undefined, Undefined, Undefined, Undefined)

SampleErrorBodies == {JsonAuthBody, JsonDetailBody, JsonNullBody, TextBody}

SampleErrorStatuses == {401, 429}

RefreshedToken == <<"at-new">>

IdleRequest ==
    /\ rHeader = <<>>
    /\ rModel = <<>>
    /\ rBody = RequestBody(FALSE, <<>>, <<>>,<<>>, NoToolChoice)
    /\ rMode = "warn"
    /\ rpc = "idle"
    /\ rParsed = NoParsed
    /\ rRouting = NoRouting
    /\ rClean = NoClean
    /\ rToken = Undefined
    /\ rCalls = <<>>
    /\ rRefresh = 0
    /\ rResponse = NoResponse

InitRequest ==
    /\ rHeader \in SeqsUpTo(RequestTokenPool, MaxRequestTokens)
    /\ rModel \in SampleModels
    /\ rBody \in SampleBodies
    /\ rMode \in OverflowModes
    /\ rpc = "start"
    /\ rParsed = NoParsed
    /\ rRouting = NoRouting
    /\ rClean = NoClean
    /\ rToken = Undefined
    /\ rCalls = <<>>
    /\ rRefresh = 0
    /\ rResponse = NoResponse

\* Tool definitions a client can send
FunctionTool == InTool("function", <<"get_weather">>, FALSE, 120)

NamedToolWithCache == InTool("named", <<"read_file">>, TRUE, 90)

CustomTool == InTool("other", <<>>, FALSE, 60)

CustomToolWithCache == InTool("other", <<>>, TRUE, 60)

SampleToolLists ==
    { <<>>,
      <<FunctionTool>>,
      <<NamedToolWithCache, FunctionTool>>,
      <<CustomTool, FunctionTool>>,
      <<CustomToolWithCache, FunctionTool>>,
      <<FunctionTool, CustomToolWithCache>> }

\* tool_choice values a client can send: the OpenAI values, values already in
\* Anthropic shape, and values of neither vocabulary
SampleToolChoices ==
    { NoToolChoice,
      NullToolChoice,
      StringToolChoice(<<"auto">>),
      StringToolChoice(<<"none">>),
      StringToolChoice(<<"required">>),
      ObjectToolChoice(<<"function">>, <<>>, <<"get_weather">>),
      ObjectToolChoice(<<"auto">>, <<>>, <<>>),
      ObjectToolChoice(<<"tool">>, <<"get_weather">>, <<>>),
      StringToolChoice(<<"always">>),
      ObjectToolChoice(<<"function">>, <<>>, <<>>) }

\* Requests with tools and a tool_choice, small and far over the limit
SampleToolBodies ==
    { RequestBody(FALSE, messages, <<>>, tools, toolChoice) :
        messages \in {<<SmallMessage>>, <<HugeMessage, HugeMessage, SmallMessage>>},
        tools \in SampleToolLists,
        toolChoice \in SampleToolChoices }

\* SpecBody: the requests above, sent with one routed key for model o3
InitBody ==
    /\ rHeader = <<RoutedToken(<<Mapping(<<"o3">>, <<"opus-4.5">>)>>, <<"sk-ant-xxx">>,
                               Undefined)>>
    /\ rModel = <<"o3">>
    /\ rBody \in SampleToolBodies
    /\ rMode \in OverflowModes
    /\ rpc = "start"
    /\ rParsed = NoParsed
    /\ rRouting = NoRouting
    /\ rClean = NoClean
    /\ rToken = Undefined
    /\ rCalls = <<>>
    /\ rRefresh = 0
    /\ rResponse = NoResponse

\* The handler returns `response`
Return(response) ==
    /\ rResponse' = response
    /\ rpc' = "done"

\* isCursorKeyCheck(body): answered before the header is read
RBypass ==
    /\ rpc = "start"
    /\ isCursorKeyCheck(rBody)
    /\ Return(BypassResponse)
    /\ UNCHANGED <<rHeader, rModel, rBody, rMode, rParsed, rRouting, rClean, rToken,
                   rCalls, rRefresh>>
    /\ UNCHANGED <<keyVars, truncVars, streamVars, convVars,
                   pairVars, oauthVars, anthVars,
                   aggVars>>

\* parseRoutedKeys, and the routing when the header raised no oauthError
RParse ==
    /\ rpc = "start"
    /\ ~isCursorKeyCheck(rBody)
    /\ LET parsedKeys == parseRoutedKeys(HeaderText(rHeader))
       IN  /\ rParsed' = parsedKeys
           /\ rRouting' = IF Falsy(parsedKeys.oauthError)
                          THEN routingOf(rModel, parsedKeys) ELSE NoRouting
    /\ rpc' = "parsed"
    /\ UNCHANGED <<rHeader, rModel, rBody, rMode, rClean, rToken, rCalls, rRefresh,
                   rResponse>>
    /\ UNCHANGED <<keyVars, truncVars, streamVars, convVars,
                   pairVars, oauthVars, anthVars,
                   aggVars>>

RAuthError ==
    /\ rpc = "parsed"
    /\ ~Falsy(rParsed.oauthError)
    /\ Return(OAuthErrorResponse(rParsed.oauthError))
    /\ UNCHANGED <<rHeader, rModel, rBody, rMode, rParsed, rRouting, rClean, rToken,
                   rCalls, rRefresh>>
    /\ UNCHANGED <<keyVars, truncVars, streamVars, convVars,
                   pairVars, oauthVars, anthVars,
                   aggVars>>

\* the handler is past the oauthError check and goes to this back end
GoesTo(backend) ==
    /\ rpc = "parsed"
    /\ Falsy(rParsed.oauthError)
    /\ backendOf(rRouting, rModel, rParsed).backend = backend

TokenInfo == backendOf(rRouting, rModel, rParsed).tokenInfo

\* handleOpenAIProxy: the request is forwarded with the default key
RDispatchOpenAI ==
    /\ GoesTo("openai")
    /\ rCalls' = Append(rCalls, Call("openai", TokenInfo.token, Undefined))
    /\ rpc' = "awaitOpenAI"
    /\ UNCHANGED <<rHeader, rModel, rBody, rMode, rParsed, rRouting, rClean, rToken,
                   rRefresh, rResponse>>
    /\ UNCHANGED <<keyVars, truncVars, streamVars, convVars,
                   pairVars, oauthVars, anthVars,
                   aggVars>>

\* Mutant: the account id is never found missing
accountIdMissing_Never(tokenInfo) == FALSE

\* handleChatGptProxy: !tokenInfo.accountId
accountIdMissing(tokenInfo) == Falsy(tokenInfo.accountId)

\* handleChatGptProxy: if (!tokenInfo.accountId) return 401
RChatGptNoAccount ==
    /\ GoesTo("chatgpt")
    /\ accountIdMissing(TokenInfo)
    /\ Return(AccountIdMissingResponse)
    /\ UNCHANGED <<rHeader, rModel, rBody, rMode, rParsed, rRouting, rClean, rToken,
                   rCalls, rRefresh>>
    /\ UNCHANGED <<keyVars, truncVars, streamVars, convVars,
                   pairVars, oauthVars, anthVars,
                   aggVars>>

\* handleChatGptProxy: fetch(`${baseUrl}/responses`)
RDispatchChatGpt ==
    /\ GoesTo("chatgpt")
    /\ ~accountIdMissing(TokenInfo)
    /\ rCalls' = Append(rCalls, Call("chatgpt", TokenInfo.token, TokenInfo.accountId))
    /\ rpc' = "awaitChatGpt"
    /\ UNCHANGED <<rHeader, rModel, rBody, rMode, rParsed, rRouting, rClean, rToken,
                   rRefresh, rResponse>>
    /\ UNCHANGED <<keyVars, truncVars, streamVars, convVars,
                   pairVars, oauthVars, anthVars,
                   aggVars>>

\* if (!isClaude || !routing): model_not_configured
RNotConfigured ==
    /\ GoesTo("none")
    /\ Return(NotConfiguredResponse(rModel))
    /\ UNCHANGED <<rHeader, rModel, rBody, rMode, rParsed, rRouting, rClean, rToken,
                   rCalls, rRefresh>>
    /\ UNCHANGED <<keyVars, truncVars, streamVars, convVars,
                   pairVars, oauthVars, anthVars,
                   aggVars>>

\* if (body.messages.length === 0)
RNoMessages ==
    /\ GoesTo("claude")
    /\ Len(rBody.messages) = 0
    /\ Return(NoMessagesResponse)
    /\ UNCHANGED <<rHeader, rModel, rBody, rMode, rParsed, rRouting, rClean, rToken,
                   rCalls, rRefresh>>
    /\ UNCHANGED <<keyVars, truncVars, streamVars, convVars,
                   pairVars, oauthVars, anthVars,
                   aggVars>>

\* tokenEstimate.isOverLimit and contextOverflowMode === 'error'
RContextTooLarge ==
    /\ GoesTo("claude")
    /\ Len(rBody.messages) > 0
    /\ estimateRequestTokens(cleanBodyOf(rBody)).isOverLimit
    /\ rMode = "error"
    /\ Return(ContextTooLargeResponse)
    /\ UNCHANGED <<rHeader, rModel, rBody, rMode, rParsed, rRouting, rClean, rToken,
                   rCalls, rRefresh>>
    /\ UNCHANGED <<keyVars, truncVars, streamVars, convVars,
                   pairVars, oauthVars, anthVars,
                   aggVars>>

\* the body is cleaned, truncated in `truncate` mode when over the limit, and
\* sent with the routing's key: sendClaudeRequest(claudeAccessToken)
RDispatchClaude ==
    /\ GoesTo("claude")
    /\ Len(rBody.messages) > 0
    /\ LET cleanBody == cleanBodyOf(rBody)
           isOverLimit == estimateRequestTokens(cleanBody).isOverLimit
       IN  /\ ~(isOverLimit /\ rMode = "error")
           /\ rClean' = IF isOverLimit /\ rMode = "truncate"
                        THEN truncatedBody(cleanBody) ELSE cleanBody
    /\ rToken' = rRouting.apiKey
    /\ rCalls' = Append(rCalls, Call("claude", rRouting.apiKey, Undefined))
    /\ rpc' = "awaitClaude"
    /\ UNCHANGED <<rHeader, rModel, rBody, rMode, rParsed, rRouting, rRefresh, rResponse>>
    /\ UNCHANGED <<keyVars, truncVars, streamVars, convVars,
                   pairVars, oauthVars, anthVars,
                   aggVars>>

\* !response.ok && response.status === 401 && usedOAuthClaude && claudeRefreshToken,
\* evaluated on the answer to the first call
refreshApplies(status) ==
    /\ rpc = "awaitClaude"
    /\ status = 401
    /\ usedOAuthClaude(rRouting, rParsed)
    /\ ~Falsy(rParsed.oauth.claudeRefreshToken)

\* Anthropic answers 2xx
RClaudeOk ==
    /\ rpc \in {"awaitClaude", "awaitRetry"}
    /\ rCalls' = Answered(rCalls, 200, NoBody)
    /\ Return(CompletionResponse)
    /\ UNCHANGED <<rHeader, rModel, rBody, rMode, rParsed, rRouting, rClean, rToken,
                   rRefresh>>
    /\ UNCHANGED <<keyVars, truncVars, streamVars, convVars,
                   pairVars, oauthVars, anthVars,
                   aggVars>>

\* Anthropic answers the first call 401 and the handler calls refreshClaudeToken
RClaudeRefresh ==
    /\ \E body \in SampleErrorBodies :
         /\ refreshApplies(401)
         /\ rCalls' = Answered(rCalls, 401, body)
    /\ rRefresh' = rRefresh + 1
    /\ rpc' = "refreshing"
    /\ UNCHANGED <<rHeader, rModel, rBody, rMode, rParsed, rRouting, rClean, rToken,
                   rResponse>>
    /\ UNCHANGED <<keyVars, truncVars, streamVars, convVars,
                   pairVars, oauthVars, anthVars,
                   aggVars>>

\* Anthropic answers non-2xx and no refresh applies: the error is mapped
RClaudeError ==
    /\ rpc \in {"awaitClaude", "awaitRetry"}
    /\ \E status \in SampleErrorStatuses, body \in SampleErrorBodies :
         /\ ~refreshApplies(status)
         /\ rCalls' = Answered(rCalls, status, body)
         /\ Return(mapAnthropicError(status, body))
    /\ UNCHANGED <<rHeader, rModel, rBody, rMode, rParsed, rRouting, rClean, rToken,
                   rRefresh>>
    /\ UNCHANGED <<keyVars, truncVars, streamVars, convVars,
                   pairVars, oauthVars, anthVars,
                   aggVars>>

\* refreshClaudeToken throws
RRefreshThrows ==
    /\ rpc = "refreshing"
    /\ Return(RefreshFailedResponse)
    /\ UNCHANGED <<rHeader, rModel, rBody, rMode, rParsed, rRouting, rClean, rToken,
                   rCalls, rRefresh>>
    /\ UNCHANGED <<keyVars, truncVars, streamVars, convVars,
                   pairVars, oauthVars, anthVars,
                   aggVars>>

\* refreshClaudeToken returns no access token: the first answer is mapped
RRefreshEmpty ==
    /\ rpc = "refreshing"
    /\ Return(mapAnthropicError(rCalls[Len(rCalls)].status, rCalls[Len(rCalls)].body))
    /\ UNCHANGED <<rHeader, rModel, rBody, rMode, rParsed, rRouting, rClean, rToken,
                   rCalls, rRefresh>>
    /\ UNCHANGED <<keyVars, truncVars, streamVars, convVars,
                   pairVars, oauthVars, anthVars,
                   aggVars>>

\* refreshClaudeToken returns a token: the request is sent again with it
RRefreshRetry ==
    /\ rpc = "refreshing"
    /\ rToken' = RefreshedToken
    /\ rCalls' = Append(rCalls, Call("claude", RefreshedToken, Undefined))
    /\ rpc' = "awaitRetry"
    /\ UNCHANGED <<rHeader, rModel, rBody, rMode, rParsed, rRouting, rClean, rRefresh,
                   rResponse>>
    /\ UNCHANGED <<keyVars, truncVars, streamVars, convVars,
                   pairVars, oauthVars, anthVars,
                   aggVars>>

ROpenAIOk ==
    /\ rpc = "awaitOpenAI"
    /\ rCalls' = Answered(rCalls, 200, NoBody)
    /\ Return(CompletionResponse)
    /\ UNCHANGED <<rHeader, rModel, rBody, rMode, rParsed, rRouting, rClean, rToken,
                   rRefresh>>
    /\ UNCHANGED <<keyVars, truncVars, streamVars, convVars,
                   pairVars, oauthVars, anthVars,
                   aggVars>>

ROpenAIError ==
    /\ rpc = "awaitOpenAI"
    /\ \E status \in SampleErrorStatuses, body \in SampleErrorBodies :
         /\ rCalls' = Answered(rCalls, status, body)
         /\ Return(mapOpenAIError(status, body))
    /\ UNCHANGED <<rHeader, rModel, rBody, rMode, rParsed, rRouting, rClean, rToken,
                   rRefresh>>
    /\ UNCHANGED <<keyVars, truncVars, streamVars, convVars,
                   pairVars, oauthVars, anthVars,
                   aggVars>>

RChatGptOk ==
    /\ rpc = "awaitChatGpt"
    /\ rCalls' = Answered(rCalls, 200, NoBody)
    /\ Return(CompletionResponse)
    /\ UNCHANGED <<rHeader, rModel, rBody, rMode, rParsed, rRouting, rClean, rToken,
                   rRefresh>>
    /\ UNCHANGED <<keyVars, truncVars, streamVars, convVars,
                   pairVars, oauthVars, anthVars,
                   aggVars>>

RChatGptError ==
    /\ rpc = "awaitChatGpt"
    /\ \E status \in SampleErrorStatuses, body \in SampleErrorBodies :
         /\ rCalls' = Answered(rCalls, status, body)
         /\ Return(mapChatGptError(status, body))
    /\ UNCHANGED <<rHeader, rModel, rBody, rMode, rParsed, rRouting, rClean, rToken,
                   rRefresh>>
    /\ UNCHANGED <<keyVars, truncVars, streamVars, convVars,
                   pairVars, oauthVars, anthVars,
                   aggVars>>

----------------------------------------------------------------------------
(* OAuth authorization codes (src/src/oauth/authorize.ts).  Client ids,    *)
(* redirect URIs, pending ids and codes are opaque values; a PKCE          *)
(* challenge or verifier is a sequence, <<>> standing for an absent        *)
(* (undefined) one, and sha256(v) is <<"sha256">> \o v.  The n-th value    *)
(* of crypto.randomBytes is n: no value comes twice.                       *)

AUTH_CODE_TTL_MS == 10 * 60 * 1000

\* the clients registered with /oauth/register: one with a redirect URI, one
\* without any (every URI is accepted for it)
clients ==
    { [client_id |-> "sb_1", redirect_uris |-> {"https://a/cb"}],
      [client_id |-> "sb_dev", redirect_uris |-> {}] }

getClient(clientId) == {c \in clients : c.client_id = clientId}

validateRedirectUri(clientId, redirectUri) ==
    \E c \in getClient(clientId) :
        c.redirect_uris = {} \/ redirectUri \in c.redirect_uris

AuthorizationRequest(clientId, redirectUri, responseType, codeChallenge, method) ==
    [client_id |-> clientId, redirect_uri |-> redirectUri, response_type |-> responseType,
     code_challenge |-> codeChallenge, code_challenge_method |-> method]

\* the error startAuthorization returns, "" when it stores a pending authorization
startAuthorization(request) ==
    IF request.response_type /= "code" THEN "unsupported_response_type"
    ELSE IF getClient(request.client_id) = {} THEN "invalid_client"
    ELSE IF ~validateRedirectUri(request.client_id, request.redirect_uri)
    THEN "invalid_redirect_uri"
    ELSE ""

\* the entry completeAuthorization stores under a new code
AuthorizationCode(code, pending, now) ==
    [code |-> code, clientId |-> pending.clientId, redirectUri |-> pending.redirectUri,
     codeChallenge |-> pending.codeChallenge,
     codeChallengeMethod |-> pending.codeChallengeMethod,
     createdAt |-> now, expiresAt |-> now + AUTH_CODE_TTL_MS]

\* Mutant: the code stays in the map
deleteCode_Keep(codes, code) == codes

\* authorizationCodes.delete(code)
deleteCode(codes, code) == {c \in codes : c.code /= code}

\* the challenge a verifier stands for under the code's method
expectedChallenge(method, codeVerifier) ==
    IF method = "S256" THEN <<"sha256">> \o codeVerifier ELSE codeVerifier

\* errorDescription of the check that fails for an entry of the map, "" when none does
exchangeFailure(authCode, now, clientId, redirectUri, codeVerifier) ==
    IF authCode.clientId /= clientId THEN "Client ID mismatch"
    ELSE IF authCode.redirectUri /= redirectUri THEN "Redirect URI mismatch"
    ELSE IF authCode.codeChallenge /= <<>> /\ codeVerifier = <<>>
    THEN "Code verifier required"
    ELSE IF /\ authCode.codeChallenge /= <<>>
            /\ expectedChallenge(IF authCode.codeChallengeMethod = "" THEN "plain"
                                 ELSE authCode.codeChallengeMethod, codeVerifier)
               /= authCode.codeChallenge
    THEN "Code verifier mismatch"
    ELSE IF now > authCode.expiresAt THEN "Authorization code expired"
    ELSE ""

\* [codes, error, errorDescription]: the map after the call and what it
\* returned, error "" meaning the AuthorizationCode itself
exchangeAuthorizationCode(codes, now, code, clientId, redirectUri, codeVerifier) ==
    LET found == {c \in codes : c.code = code}
        authCode == CHOOSE c \in found : TRUE
        failure == exchangeFailure(authCode, now, clientId, redirectUri, codeVerifier)
    IN  IF found = {}
        THEN [codes |-> codes, error |-> "invalid_grant",
              errorDescription |-> "Authorization code not found or expired"]
        ELSE IF failure /= ""
        THEN [codes |-> deleteCode(codes, code), error |-> "invalid_grant",
              errorDescription |-> failure]
        ELSE [codes |-> deleteCode(codes, code), error |-> "", errorDescription |-> ""]

\* by how much the clock advances between two calls: a code issued just
\* before is then at its expiry time, or 1 ms past it
TickSteps == {AUTH_CODE_TTL_MS, AUTH_CODE_TTL_MS + 1}

SampleVerifiers == { <<>>, <<"v1">>, <<"v2">> }

SampleAuthorizationRequests ==
    { AuthorizationRequest("sb_1", "https://a/cb", "code", <<>>, ""),
      AuthorizationRequest("sb_1", "https://a/cb", "code", <<"sha256", "v1">>, "S256"),
      AuthorizationRequest("sb_dev", "https://b/cb", "code", <<"v1">>, ""),
      AuthorizationRequest("sb_1", "https://b/cb", "code", <<>>, ""),
      AuthorizationRequest("sb_unknown", "https://a/cb", "code", <<>>, ""),
      AuthorizationRequest("sb_1", "https://a/cb", "token", <<>>, "") }

\* the client id and redirect URI a token request can carry
SampleExchangeClients ==
    { <<"sb_1", "https://a/cb">>, <<"sb_dev", "https://b/cb">>, <<"sb_1", "https://b/cb">> }

NoExchange ==
    [called |-> FALSE, code |-> 0, clientId |-> "", redirectUri |-> "", codeVerifier |-> <<>>,
     at |-> 0, error |-> "", errorDescription |-> ""]

IdleOAuth ==
    /\ oNow = 0
    /\ oPending = {}
    /\ oCodes = {}
    /\ oStarted = 0
    /\ oIssued = <<>>
    /\ oAttempted = {}
    /\ oSuccesses = <<>>
    /\ oLast = NoExchange
    /\ oTicks = 0

InitOAuth ==
    /\ oNow = 0
    /\ oPending = {}
    /\ oCodes = {}
    /\ oStarted = 0
    /\ oIssued = <<>>
    /\ oAttempted = {}
    /\ oSuccesses = <<>>
    /\ oLast = NoExchange
    /\ oTicks = 0

\* startAuthorization(request) accepts the request
OStart ==
    /\ oStarted < MaxAuth
    /\ \E request \in SampleAuthorizationRequests :
         /\ startAuthorization(request) = ""
         /\ oPending' = oPending \cup
                {[id |-> oStarted + 1, clientId |-> request.client_id,
                  redirectUri |-> request.redirect_uri,
                  codeChallenge |-> request.code_challenge,
                  codeChallengeMethod |-> request.code_challenge_method,
                  createdAt |-> oNow]}
    /\ oStarted' = oStarted + 1
    /\ UNCHANGED <<oNow, oTicks, oCodes, oIssued, oAttempted, oSuccesses, oLast>>
    /\ UNCHANGED <<keyVars, truncVars, streamVars, reqVars, convVars, pairVars, anthVars,
                   aggVars>>

\* completeAuthorization(pendingId, userId, providers) for a pending id of the map
OComplete ==
    /\ \E pending \in oPending :
         LET authCode == AuthorizationCode(Len(oIssued) + 1, pending, oNow)
         IN  /\ oCodes' = oCodes \cup {authCode}
             /\ oIssued' = Append(oIssued, authCode)
             /\ oPending' = oPending \ {pending}
    /\ oSuccesses' = Append(oSuccesses, 0)
    /\ UNCHANGED <<oNow, oTicks, oStarted, oAttempted, oLast>>
    /\ UNCHANGED <<keyVars, truncVars, streamVars, reqVars, convVars, pairVars, anthVars,
                   aggVars>>

\* exchangeAuthorizationCode(code, clientId, redirectUri, codeVerifier) for an
\* issued code or for code 0, which was never issued
OExchange ==
    /\ \E code \in 0..Len(oIssued), client \in SampleExchangeClients,
          codeVerifier \in SampleVerifiers :
         LET out == exchangeAuthorizationCode(oCodes, oNow, code, client[1], client[2],
                                              codeVerifier)
         IN  /\ oCodes' = out.codes
             /\ oLast' = [called |-> TRUE, code |-> code, clientId |-> client[1],
                          redirectUri |-> client[2], codeVerifier |-> codeVerifier,
                          at |-> oNow, error |-> out.error,
                          errorDescription |-> out.errorDescription]
             /\ oAttempted' = oAttempted \cup {code}
             /\ oSuccesses' = IF out.error = "" THEN [oSuccesses EXCEPT ![code] = @ + 1]
                              ELSE oSuccesses
    /\ UNCHANGED <<oNow, oTicks, oPending, oStarted, oIssued>>
    /\ UNCHANGED <<keyVars, truncVars, streamVars, reqVars, convVars, pairVars, anthVars,
                   aggVars>>

\* the setInterval callback: expired entries leave both maps
OCleanup ==
    /\ \/ \E pending \in oPending : oNow - pending.createdAt > AUTH_CODE_TTL_MS
       \/ \E auth \in oCodes : oNow > auth.expiresAt
    /\ oPending' = {pending \in oPending : ~(oNow - pending.createdAt > AUTH_CODE_TTL_MS)}
    /\ oCodes' = {auth \in oCodes : ~(oNow > auth.expiresAt)}
    /\ UNCHANGED <<oNow, oTicks, oStarted, oIssued, oAttempted, oSuccesses, oLast>>
    /\ UNCHANGED <<keyVars, truncVars, streamVars, reqVars, convVars, pairVars, anthVars,
                   aggVars>>

\* time passes
OTick ==
    /\ oTicks < MaxClock
    /\ \E d \in TickSteps : oNow' = oNow + d
    /\ oTicks' = oTicks + 1
    /\ UNCHANGED <<oPending, oCodes, oStarted, oIssued, oAttempted, oSuccesses, oLast>>
    /\ UNCHANGED <<keyVars, truncVars, streamVars, reqVars, convVars, pairVars, anthVars,
                   aggVars>>

----------------------------------------------------------------------------
(* Claims about the key router *)

IsLiteral(t) == ~startsWith(t.key, "sb1.")

\* The full model id a mapping target stands for, as the documentation lists it
FullModelId(to) ==
    IF to = <<"opus-4.5">> THEN <<"claude-", "opus-4-5-20251101">>
    ELSE IF to = <<"sonnet-4.5">> THEN <<"claude-", "sonnet-4-5-20250514">>
    ELSE to

ExpectedConfig(t) ==
    [mappings |-> [i \in 1..Len(t.maps) |->
                     [from |-> t.maps[i].from, to |-> FullModelId(t.maps[i].to)]],
     apiKey |-> t.key,
     accountId |-> t.acct]

RECURSIVE ExpectedConfigs(_)
ExpectedConfigs(ts) ==
    IF ts = <<>> THEN <<>>
    ELSE (IF Head(ts).routed THEN <<ExpectedConfig(Head(ts))>> ELSE <<>>)
         \o ExpectedConfigs(Tail(ts))

PlainOf(ts) == SelectSeq(ts, LAMBDA t : ~t.routed)

C11_SingleTokenKeepsAllMappings ==
    (/\ kpc \in {"parsed", "resolved"}
     /\ Len(kTokens) = 1
     /\ kTokens[1].routed
     /\ IsLiteral(kTokens[1])
     /\ Len(kTokens[1].maps) >= 2)
    => /\ kParsed.configs = ExpectedConfigs(kTokens)
       /\ \A j \in 1..Len(kTokens[1].maps) :
             LET r == resolveModelRouting(kTokens[1].maps[j].from, kParsed)
             IN  r.found /\ r.apiKey = kTokens[1].key

\* the mappings of all configs, in match order, each with its config's key
RECURSIVE FlatMappings(_)
FlatMappings(configs) ==
    IF configs = <<>> THEN <<>>
    ELSE [j \in 1..Len(Head(configs).mappings) |->
            [from |-> Head(configs).mappings[j].from,
             to |-> Head(configs).mappings[j].to,
             key |-> Head(configs).apiKey]]
         \o FlatMappings(Tail(configs))

\* C12: the first mapping whose `from` equals the requested model, scanning
\* configs in header order and mappings in list order, decides the target
\* model and the key; only when no mapping matches is the requested model
\* alias-resolved and served with the default key; when there is neither the
\* result is null.
C12_FirstMatchDecides ==
    kpc = "resolved" =>
        LET flat == FlatMappings(kParsed.configs)
            hits == {i \in 1..Len(flat) : flat[i].from = kModel}
            first == flat[CHOOSE i \in hits : \A k \in hits : i <= k]
        IN  IF hits /= {}
            THEN /\ kRouting.found
                 /\ kRouting.claudeModel = first.to
                 /\ kRouting.apiKey = first.key
            ELSE IF kParsed.defaultKey /= Undefined
            THEN /\ kRouting.found
                 /\ kRouting.claudeModel = FullModelId(kModel)
                 /\ kRouting.apiKey = kParsed.defaultKey
            ELSE ~kRouting.found

\* two configs map o3 to different models with different keys: the first decides
C12_Witness ==
    /\ kpc = "resolved"
    /\ kModel = <<"o3">>
    /\ Len(kTokens) = 3
    /\ kTokens[1] = RoutedToken(<<Mapping(<<"o3">>, <<"opus-4.5">>)>>,
                                <<"sk-ant-yyy">>, <<"acct_2">>)
    /\ kTokens[2] = RoutedToken(<<Mapping(<<"o3-mini">>, <<"claude-", "sonnet-4-5-20250514">>),
                                  Mapping(<<"o3">>, <<"sonnet-4.5">>)>>,
                                <<"sk-ant-xxx">>, Undefined)
    /\ kTokens[3] = PlainToken(<<"sk-openai-xxx">>, Undefined)
    /\ kRouting.claudeModel = <<"claude-", "opus-4-5-20251101">>
    /\ kRouting.apiKey = <<"sk-ant-yyy">>

\* the orders in which the tokens of a header can be written
Reorderings(ts) ==
    {[i \in 1..Len(ts) |-> ts[p[i]]] : p \in Permutations(1..Len(ts))}

\* the set of (from, to, key) mappings of a parse result
MappingSet(parsed) ==
    UNION {{<<parsed.configs[i].mappings[j].from, parsed.configs[i].mappings[j].to,
              parsed.configs[i].apiKey>> : j \in 1..Len(parsed.configs[i].mappings)} :
           i \in 1..Len(parsed.configs)}

\* tokens that do not compete: at most one literal plain key asks to be the default
Independent(ts) ==
    Cardinality({i \in 1..Len(ts) : ~ts[i].routed /\ IsLiteral(ts[i])}) <= 1

\* C13: for a header of independent plain and routed tokens, every order of
\* the tokens parses to the same default key, the same default account id
\* and the same set of (from, to, key) mappings.
C13_ParseOrderIndependent ==
    (kpc \in {"parsed", "resolved"} /\ Independent(kTokens))
    => \A ts \in Reorderings(kTokens) :
          LET q == parseRoutedKeys(HeaderText(ts))
          IN  /\ q.defaultKey = kParsed.defaultKey
              /\ q.defaultAccountId = kParsed.defaultAccountId
              /\ MappingSet(q) = MappingSet(kParsed)

\* the plain key with an account id comes last, after two routed tokens
C13_Witness ==
    /\ kpc = "parsed"
    /\ Len(kTokens) = 3
    /\ kTokens[1].routed /\ kTokens[2].routed /\ kTokens[1] /= kTokens[2]
    /\ kTokens[3] = PlainToken(<<"sk-chatgpt-xxx">>, <<"acct_1">>)
    /\ kParsed.defaultKey = <<"sk-chatgpt-xxx">>
    /\ kParsed.defaultAccountId = <<"acct_1">>
    /\ Len(kParsed.configs) = 2

\* The plain tokens of the header that are not bridge credentials
DefaultCandidates(ts) == SelectSeq(ts, LAMBDA t : ~t.routed /\ IsLiteral(t))

\* C22: a plain token (no `=`) that is not a bridge credential is recorded as
\* the default key with its `#accountId` suffix split off as the default
\* account id; key and account id come from the same token, the first plain
\* token in header order, and without such a token there is no default.
C22_FirstPlainTokenIsDefault ==
    kpc /= "start"
    => LET plain == DefaultCandidates(kTokens)
       IN  /\ plain /= <<>> => /\ kParsed.defaultKey = plain[1].key
                               /\ kParsed.defaultAccountId = plain[1].acct
           /\ plain = <<>> => /\ kParsed.defaultKey = Undefined
                              /\ kParsed.defaultAccountId = Undefined

\* Scenario B, `sk-chatgpt-xxx#acct_1`, alone and ahead of another plain key;
\* and a plain key without account ahead of one with an account
C22_Witness ==
    /\ kpc = "parsed"
    /\ \/ /\ kTokens = <<PlainToken(<<"sk-chatgpt-xxx">>, <<"acct_1">>)>>
          /\ kParsed.defaultKey = <<"sk-chatgpt-xxx">>
          /\ kParsed.defaultAccountId = <<"acct_1">>
       \/ /\ kTokens = <<PlainToken(<<"sk-openai-xxx">>, Undefined),
                          PlainToken(<<"sk-chatgpt-xxx">>, <<"acct_1">>)>>
          /\ kParsed.defaultKey = <<"sk-openai-xxx">>
          /\ kParsed.defaultAccountId = Undefined

----------------------------------------------------------------------------
(* Claims about the context manager *)

RECURSIVE FlattenIds(_, _)
FlattenIds(messages, useSide) ==
    IF messages = <<>> THEN {}
    ELSE {(IF useSide THEN Head(messages).useIds ELSE Head(messages).resultIds)[k] :
            k \in 1..Len(IF useSide THEN Head(messages).useIds
                         ELSE Head(messages).resultIds)}
         \cup FlattenIds(Tail(messages), useSide)

UseIdsOf(messages) == FlattenIds(messages, TRUE)

ResultIdsOf(messages) == FlattenIds(messages, FALSE)

\* C1: truncateMessages never separates a tool_use/tool_result pair: every id
\* that has both its tool_use and its tool_result in the input has both or
\* neither in the result.
C1_PairsNeverSeparated ==
    tpc = "done" =>
        \A id \in UseIdsOf(tMessages) \cap ResultIdsOf(tMessages) :
            id \in UseIdsOf(tResult.messages) <=> id \in ResultIdsOf(tResult.messages)

\* the strictly increasing index maps from 1..n into 1..m
Embeddings(n, m) ==
    {f \in [1..n -> 1..m] : \A i \in 1..n, j \in 1..n : i < j => f[i] < f[j]}

\* sub is whole messages of seq, each taken once, in their original order
IsSubsequence(sub, seq) ==
    \E f \in Embeddings(Len(sub), Len(seq)) : \A i \in 1..Len(sub) : sub[i] = seq[f[i]]

\* C15: for every truncateMessages result, removedCount is the input length
\* minus the result length, and the result is a subsequence of the input:
\* the kept messages are unaltered, in their original relative order, none
\* twice.
C15_ResultIsSubsequence ==
    tpc = "done" =>
        /\ tResult.removedCount = Len(tMessages) - Len(tResult.messages)
        /\ IsSubsequence(tResult.messages, tMessages)

\* a truncation that keeps two different messages and removes others
C15_Witness ==
    /\ tpc = "done"
    /\ Len(tMessages) = 4
    /\ tResult.truncated
    /\ Len(tResult.messages) = 2
    /\ tResult.messages[1] /= tResult.messages[2]
    /\ tResult.removedCount = 2

\* C16: truncation is idempotent: for the same budget, system and tool token
\* counts, truncateMessages applied to the messages a previous call returned
\* gives the same list with truncated = false and removedCount = 0.
C16_TruncationIdempotent ==
    tpc = "done" =>
        LET again == truncateMessages(tResult.messages, tTarget, tSystem, tTools)
        IN  /\ again.messages = tResult.messages
            /\ ~again.truncated
            /\ again.removedCount = 0

\* The cost the budget counts for one message: the estimate of its
\* serialized form plus 4
Cost(msg) == estimateTokens(msg.chars) + 4

RECURSIVE CostOfAll(_)
CostOfAll(messages) ==
    IF messages = <<>> THEN 0 ELSE Cost(Head(messages)) + CostOfAll(Tail(messages))

\* The messages of tMessages whose index is in `kept`, oldest first
KeptMessages(kept) ==
    LET idx == SelectSeq([i \in 1..Len(tMessages) |-> i], LAMBDA i : i \in kept)
    IN  [k \in 1..Len(idx) |-> tMessages[idx[k]]]

Budget == tTarget - tSystem - tTools

\* C25: whenever targetTokens - systemTokens - toolsTokens > 0, the costs of
\* the kept messages add up to at most that budget, at every step of the
\* newest-to-oldest walk and in the result.
C25_BudgetKept ==
    (tpc \in {"walk", "done"} /\ Budget > 0)
    => /\ CostOfAll(KeptMessages(tInclude)) <= Budget
       /\ tpc = "done" => CostOfAll(tResult.messages) <= Budget

\* a truncation whose kept messages use the budget up to the last token
C25_Witness ==
    /\ tpc = "done"
    /\ Budget > 0
    /\ tResult.truncated
    /\ Len(tResult.messages) >= 2
    /\ CostOfAll(tResult.messages) = Budget

\* The messages that hold the other half of a tool_use/tool_result pair of message i
Partners(i) ==
    {j \in (1..Len(tMessages)) \ {i} :
        \E id \in ToolIds :
            \/ (\E a \in 1..Len(tMessages[i].useIds) : tMessages[i].useIds[a] = id)
               /\ (\E b \in 1..Len(tMessages[j].resultIds) : tMessages[j].resultIds[b] = id)
            \/ (\E a \in 1..Len(tMessages[i].resultIds) : tMessages[i].resultIds[a] = id)
               /\ (\E b \in 1..Len(tMessages[j].useIds) : tMessages[j].useIds[b] = id)}

RECURSIVE CostOfSet(_)
CostOfSet(S) ==
    IF S = {} THEN 0
    ELSE LET i == CHOOSE x \in S : TRUE
         IN  Cost(tMessages[i]) + CostOfSet(S \ {i})

\* a newer message was rejected before the walk reached message i
RejectedAbove(i) == \E j \in (i + 1)..Len(tMessages) : j \notin tInclude

C27_OldestRemovedFirst ==
    tpc = "done"
    => /\ \A i \in tInclude :
            (\E j \in (i + 1)..Len(tMessages) : j \notin tInclude)
            => \E k \in tInclude : k > i /\ i \in Partners(k)
       /\ tInclude /= {} => Len(tMessages) \in tInclude

\* C28: when systemTokens + toolsTokens >= targetTokens the result is the
\* empty list with truncated = true, removedCount = the input's length and
\* the notice that system prompt and tools exceed the limit; no message is
\* included.
C28_NothingKeptWithoutBudget ==
    (tpc = "done" /\ tSystem + tTools >= tTarget)
    => /\ tResult.messages = <<>>
       /\ tResult.truncated
       /\ tResult.removedCount = Len(tMessages)
       /\ tResult.truncationNotice = SystemExceedsNotice
       /\ tInclude = {}

\* system and tool tokens equal to the target, and a conversation to drop
C28_Witness ==
    /\ tpc = "done"
    /\ tSystem + tTools = tTarget
    /\ Len(tMessages) >= 2
    /\ tResult.removedCount = Len(tMessages)

\* C29: a truncation notice is produced exactly when truncation removed at
\* least one message (notice defined <=> truncated <=> removedCount > 0), and
\* in `truncate` mode the request sent upstream then has the notice as its
\* first system block, before all original system blocks.
C29_NoticeIffRemoved ==
    /\ tpc = "done"
       => /\ (tResult.truncationNotice /= NoNotice) <=> tResult.truncated
          /\ tResult.truncated <=> (tResult.removedCount > 0)
    /\ (rpc = "awaitClaude" /\ Len(rCalls) = 1 /\ rMode = "truncate")
       => LET cleanBody == cleanBodyOf(rBody)
              tokenEstimate == estimateRequestTokens(cleanBody)
              result == truncateMessages(cleanBody.messages, effectiveLimit,
                                         tokenEstimate.systemTokens,
                                         tokenEstimate.toolsTokens)
          IN  (tokenEstimate.isOverLimit /\ result.removedCount > 0)
              => /\ rClean.system[1].kind = "notice"
                 /\ SubSeq(rClean.system, 2, Len(rClean.system)) = cleanBody.system

----------------------------------------------------------------------------
(* Claims about the Responses-SSE stream *)

\* C3: every streamed response is terminated by the `data: [DONE]` sentinel:
\* once the upstream stream has ended and the loop has left, the last frame
\* written to a client that is still there is `data: [DONE]`.
C3_StreamEndsWithDone ==
    (spc = "closed" /\ ~sClientGone /\ sWritten /= <<>>)
    => sWritten[Len(sWritten)] = DoneFrame

SampleItems == {EvMessage.item, EvCall.item, EvCallNoId.item, EvCallAnonymous.item}

\* the frame carries the chunk emitted for this terminal item
IsFrameOf(frame, item) ==
    IF item.type = "message" THEN frame.json.delta.content = item.text
    ELSE frame.json.delta.tool_call.name = item.name

\* the function_call items among the frames the upstream has sent
FunctionCallsSent ==
    {sText[i].ev.item : i \in {j \in 1..Len(sText) :
        sText[j].ch = "json" /\ sText[j].ev.item.type = "function_call"}}

\* C4: a terminal item is processed at most once per stream: repeated
\* `response.output_item.done` events for the same item (same id, same
\* call_id without id, or the same item without any identifier) yield at most
\* one chunk, and the tool-call index advances at most once per item.
C4_TerminalItemOnce ==
    /\ \A item \in SampleItems :
          Cardinality({i \in 1..Len(sWritten) : IsFrameOf(sWritten[i], item)}) <= 1
    /\ sState.toolCallIndex <= Cardinality(FunctionCallsSent)

\* C14: assistant text is never emitted twice: once a
\* `response.output_text.delta` has been processed, no later
\* `response.output_item.done` assistant message item causes a content
\* chunk, so no frame with the item's text follows a frame with a delta.
C14_NoItemTextAfterDelta ==
    \A i, j \in 1..Len(sWritten) :
        (i < j /\ sWritten[i].json.delta.content = EvDelta.delta)
        => sWritten[j].json.delta.content /= EvMessage.item.text

\* a delta, then the finished message item, then the end of the response
C14_Witness ==
    /\ spc = "closed"
    /\ ~sClientGone
    /\ sText = StreamText(<<Arrival(EvDelta, "r1"), Arrival(EvMessage, "r1"),
                            Arrival(EvCompleted, "r1")>>)
    /\ sState.sawTextDelta
    /\ <<"msg_1">> \in sState.processedItemIds
    /\ Len(sWritten) = 3
    /\ sWritten[1].json.delta.content = <<"Hi">>
    /\ sWritten[3] = DoneFrame

\* C5: on every exit path of a streamed response (upstream end, a failed
\* read, a failed write to a client that is gone) the upstream reader is
\* released.
C5_ReaderReleasedOnExit ==
    spc \in {"closed", "failed"} => sReleased

\* the frames written that carry content or a tool call, in order
ContentFrames ==
    SelectSeq(sWritten, LAMBDA f :
        f /= DoneFrame
        /\ (f.json.delta.content /= Undefined \/ f.json.delta.tool_call /= NoToolCall))

\* C32: in a Responses-SSE stream the role is emitted exactly once when any
\* content or tool-call chunk is emitted: it is on the first chunk with a
\* non-empty delta (text delta, message item text or function call) and on no
\* later chunk and no other frame.
C32_RoleExactlyOnce ==
    /\ \A i \in 1..Len(ContentFrames) :
          ContentFrames[i].json.delta.role = "assistant" <=> i = 1
    /\ Cardinality({i \in 1..Len(sWritten) : sWritten[i].json.delta.role = "assistant"})
          = (IF ContentFrames = <<>> THEN 0 ELSE 1)
    /\ (~sClientGone) => (sState.roleSent <=> ContentFrames /= <<>>)

\* a terminal chunk first, then a function call, then a text delta: the role
\* is on the call's chunk
C32_Witness ==
    /\ spc = "closed"
    /\ Len(sWritten) = 4
    /\ Len(ContentFrames) = 2
    /\ sWritten[1].json.finish_reason = "stop"
    /\ ContentFrames[1].json.delta.tool_call /= NoToolCall
    /\ ContentFrames[1].json.delta.role = "assistant"
    /\ ContentFrames[2].json.delta.content = <<"Hi">>
    /\ ContentFrames[2].json.delta.role = ""

\* the frames written that carry a tool call, in order
ToolCallFrames ==
    SelectSeq(sWritten, LAMBDA f : f /= DoneFrame /\ f.json.delta.tool_call /= NoToolCall)

\* C33: the stream state is monotonic: over every step the dedup set only
\* gains elements, toolCallIndex never decreases and roleSent, sawTextDelta
\* and toolCallsSeen never return to false; the tool-call chunks of one stream
\* carry the indices 0, 1, 2, ... in emission order, no gap and no repeat.
C33_StateMonotonic ==
    /\ [][/\ sState.processedItemIds \subseteq sState'.processedItemIds
          /\ sState.toolCallIndex <= sState'.toolCallIndex
          /\ sState.roleSent => sState'.roleSent
          /\ sState.sawTextDelta => sState'.sawTextDelta
          /\ sState.toolCallsSeen => sState'.toolCallsSeen]_vars
    /\ [](\A i \in 1..Len(ToolCallFrames) : ToolCallFrames[i].json.delta.tool_call.index = i - 1)

\* two different function calls and a text delta were read and written
C33_Witness ==
    /\ ~sClientGone
    /\ Len(ToolCallFrames) = 2
    /\ ToolCallFrames[2].json.delta.tool_call.index = 1
    /\ sState.toolCallIndex = 2
    /\ Cardinality(sState.processedItemIds) = 2
    /\ sState.roleSent /\ sState.sawTextDelta /\ sState.toolCallsSeen

\* the upstream text without its malformed frames
RECURSIVE WithoutMalformed(_)
WithoutMalformed(text) ==
    IF Len(text) < 5 THEN text
    ELSE (IF text[2].ev = EvMalformed THEN <<>> ELSE SubSeq(text, 1, 5))
         \o WithoutMalformed(SubSeq(text, 6, Len(text)))

\* the part of the upstream text made of the frames read whole
WholeFramesRead == SubSeq(sText, 1, sPos - (sPos % 5))

\* C35: a frame whose payload is not valid JSON is skipped without effect: the
\* frames written, the response id, the flags, the tool-call index and the
\* dedup set are those of the same stream with the malformed frames left out.
C35_MalformedFrameSkipped ==
    LET clean == processChatGptChunk(createChatGptStreamState(SampleStreamModel),
                                     WithoutMalformed(WholeFramesRead))
    IN  (spc /= "idle" /\ ~sClientGone)
        => /\ sWritten = framesOf(clean.results)
           /\ [sState EXCEPT !.buffer = <<>>] = [clean.state EXCEPT !.buffer = <<>>]

\* a malformed frame between a text delta and a function call, all read
C35_Witness ==
    /\ spc = "closed"
    /\ ~sClientGone
    /\ sText = StreamText(<<Arrival(EvDelta, "r1"), Arrival(EvMalformed, "r1"),
                            Arrival(EvCall, "r1")>>)
    /\ Len(sWritten) = 2
    /\ sWritten[2].json.delta.tool_call.index = 0
    /\ sState.toolCallIndex = 1

\* C36: translation is independent of chunk boundaries: however the upstream
\* text read so far was cut into chunks, the results (written as frames, in
\* order) and the state are those of processing that text in one call.
C36_ChunkingIndependent ==
    LET whole == processChatGptChunk(createChatGptStreamState(SampleStreamModel),
                                     SubSeq(sText, 1, sPos))
    IN  (spc /= "idle" /\ ~sClientGone)
        => /\ sWritten = framesOf(whole.results)
           /\ sState = whole.state

\* two frames read in chunks that cut the first frame in its payload: the
\* buffer holds the unfinished second frame
C36_Witness ==
    /\ spc = "reading"
    /\ ~sClientGone
    /\ sPos > 5 /\ sPos < 10
    /\ sState.buffer /= <<>>
    /\ Len(sWritten) = 1

\* C37: at most one `[DONE]` sentinel is written to the client and no chunk
\* frame is written after it, for every upstream event sequence.
C37_DoneOnceAndLast ==
    \A i \in 1..Len(sWritten) : sWritten[i] = DoneFrame => i = Len(sWritten)

\* the chunks the streaming path emits for the upstream text of the
\* aggregated request
StreamedChunks ==
    LET out == processChatGptChunk(createChatGptStreamState(SampleStreamModel), gText)
    IN  SelectSeq(framesOf(out.results), LAMBDA f : f /= DoneFrame)

RECURSIVE ConcatContent(_)
ConcatContent(frames) ==
    IF frames = <<>> THEN <<>>
    ELSE (IF Falsy(Head(frames).json.delta.content) THEN <<>>
          ELSE Head(frames).json.delta.content)
         \o ConcatContent(Tail(frames))

RECURSIVE StreamedToolCalls(_)
StreamedToolCalls(frames) ==
    IF frames = <<>> THEN <<>>
    ELSE (IF Head(frames).json.delta.tool_call = NoToolCall THEN <<>>
          ELSE <<Head(frames).json.delta.tool_call>>)
         \o StreamedToolCalls(Tail(frames))

RECURSIVE LastUsage(_)
LastUsage(frames) ==
    IF frames = <<>> THEN ZeroUsage
    ELSE IF frames[Len(frames)].json.usage.defined THEN frames[Len(frames)].json.usage
    ELSE LastUsage(SubSeq(frames, 1, Len(frames) - 1))

AggregatedContentAgrees ==
    gpc = "done" =>
        gResponse.content = (IF ConcatContent(StreamedChunks) = <<>> THEN Null
                             ELSE ConcatContent(StreamedChunks))

AggregatedToolCallsAgree ==
    gpc = "done" => gResponse.tool_calls = StreamedToolCalls(StreamedChunks)

AggregatedFinishAgrees ==
    gpc = "done" =>
        /\ gResponse.finish_reason
              = (IF gResponse.tool_calls /= <<>> THEN "tool_calls" ELSE "stop")
        /\ \A i \in 1..Len(StreamedChunks) :
              StreamedChunks[i].json.finish_reason /= "null"
              => StreamedChunks[i].json.finish_reason = gResponse.finish_reason

AggregatedUsageAgrees ==
    gpc = "done" => gResponse.usage = LastUsage(StreamedChunks)

\* C34: non-streaming aggregation agrees with streaming on the same upstream
\* event sequence: content is the concatenation of the streamed contents,
\* tool_calls holds each streamed tool call once, finish_reason is tool_calls
\* if a tool call was aggregated and stop otherwise and equals that of the
\* streamed terminal chunk, usage is the last usage seen or all zeros.
C34_AggregationAgreesWithStreaming ==
    /\ AggregatedContentAgrees
    /\ AggregatedToolCallsAgree
    /\ AggregatedFinishAgrees
    /\ AggregatedUsageAgrees

RECURSIVE EventsRead(_, _)
EventsRead(text, pos) ==
    IF pos < 5 THEN <<>>
    ELSE <<text[2].ev>> \o EventsRead(SubSeq(text, 6, Len(text)), pos - 5)

ChunkFrames(frames) == SelectSeq(frames, LAMBDA f : f /= DoneFrame)

\* C23: in the Anthropic-SSE translation the frames content_block_delta
\* {text: "Hi"} then message_stop yield exactly one chunk, with content "Hi"
\* and role assistant, followed by the [DONE] sentinel; in general the role is
\* on the first chunk written and on no other, and one [DONE] is written for
\* every message_stop read, after everything the events before it yield.
C23_AnthropicScenario ==
    /\ (apc = "closed" /\ aText = StreamText(<<Arrival(ATextDelta, ""), Arrival(AMessageStop, "")>>)
          => /\ Len(aWritten) = 2
             /\ aWritten[1].line = "data: <json>"
             /\ aWritten[1].json.delta.content = <<"Hi">>
             /\ aWritten[1].json.delta.role = "assistant"
             /\ aWritten[2] = DoneFrame)
    /\ \A i \in 1..Len(ChunkFrames(aWritten)) :
          ChunkFrames(aWritten)[i].json.delta.role = "assistant" <=> i = 1
    /\ apc /= "idle" =>
          LET events == EventsRead(aText, aPos)
              stops == {i \in 1..Len(events) : events[i].type = "message_stop"}
              dones == {j \in 1..Len(aWritten) : aWritten[j] = DoneFrame}
          IN  /\ Cardinality(dones) = Cardinality(stops)
              /\ (events /= <<>> /\ events[Len(events)].type = "message_stop")
                    => aWritten[Len(aWritten)] = DoneFrame

\* Scenario C has been translated, the role flag is set and the stream is
\* closed
C23_Witness ==
    /\ apc = "closed"
    /\ aText = StreamText(<<Arrival(ATextDelta, ""), Arrival(AMessageStop, "")>>)
    /\ Len(aWritten) = 2
    /\ aWritten[1].json.delta.content = <<"Hi">>
    /\ aWritten[1].json.delta.role = "assistant"
    /\ aWritten[2] = DoneFrame
    /\ aState.roleSent

----------------------------------------------------------------------------
(* Claims about the message converter *)

NonEmptyAssistantContent(content) ==
    \/ content.form = "string" /\ content.str /= <<>> /\ trimEnd(content.str) /= <<>>
    \/ /\ content.form = "array"
       /\ content.blocks /= <<>>
       /\ \A k \in 1..Len(content.blocks) :
             content.blocks[k].type = "text"
             => /\ content.blocks[k].text /= Undefined
                /\ trimEnd(content.blocks[k].text) /= <<>>

\* C17: after convertMessages no assistant message has empty content: its
\* content is a non-empty string or a non-empty block array in which every
\* text block is non-empty, empty or whitespace-only text being "...".
C17_AssistantContentNeverEmpty ==
    cpc = "done" =>
        \A k \in 1..Len(cConverted) :
            cConverted[k].role = "assistant"
            => NonEmptyAssistantContent(cConverted[k].content)

\* an empty assistant string, and an assistant array whose text block is blank
C17_Witness ==
    /\ cpc = "done"
    /\ cMessages = <<AssistantEmpty, AssistantCallsBlankBlock, AssistantNoBlocks>>
    /\ Len(cConverted) = 3
    /\ cConverted[1].content = StringContent(Placeholder)
    /\ cConverted[2].content.blocks[1] = Block("text", Placeholder, <<>>)
    /\ cConverted[2].content.blocks[2] = ToolUse(<<"call_c">>, Input("empty", <<>>))
    /\ cConverted[3].content = StringContent(Placeholder)

\* the ids of the blocks of one kind in a list of blocks, in order
RECURSIVE BlockIds(_, _)
BlockIds(blocks, type) ==
    IF blocks = <<>> THEN <<>>
    ELSE (IF Head(blocks).type = type THEN <<Head(blocks).id>> ELSE <<>>)
         \o BlockIds(Tail(blocks), type)

\* the ids of the blocks of one kind in the converted messages, in order
RECURSIVE ConvertedIds(_, _)
ConvertedIds(converted, type) ==
    IF converted = <<>> THEN <<>>
    ELSE (IF Head(converted).content.form = "array"
          THEN BlockIds(Head(converted).content.blocks, type) ELSE <<>>)
         \o ConvertedIds(Tail(converted), type)

\* the tool-call ids of the input, in order: call_id of function_call and
\* custom_tool_call items, and for an assistant message the tool_use blocks
\* its content already holds, then tool_calls[].id
RECURSIVE InputCallIds(_)
InputCallIds(messages) ==
    IF messages = <<>> THEN <<>>
    ELSE LET msg == Head(messages)
         IN  (IF msg.type \in {"custom_tool_call", "function_call"} THEN <<msg.call_id>>
              ELSE IF msg.role = "assistant"
              THEN (IF msg.content.form = "array"
                    THEN BlockIds(msg.content.blocks, "tool_use") ELSE <<>>)
                   \o msg.tool_calls
              ELSE <<>>)
             \o InputCallIds(Tail(messages))

\* the ids of the input tool results, in order: call_id of the output items,
\* tool_call_id of the tool messages and the tool_result blocks a user
\* message already holds
RECURSIVE InputResultIds(_)
InputResultIds(messages) ==
    IF messages = <<>> THEN <<>>
    ELSE LET msg == Head(messages)
         IN  (IF msg.type \in {"custom_tool_call_output", "function_call_output"}
              THEN <<msg.call_id>>
              ELSE IF msg.type = "" /\ msg.role = "tool" THEN <<msg.tool_call_id>>
              ELSE IF msg.role = "user" /\ msg.content.form = "array"
              THEN BlockIds(msg.content.blocks, "tool_result")
              ELSE <<>>)
             \o InputResultIds(Tail(messages))

IsToolResultInput(msg) ==
    \/ msg.type \in {"custom_tool_call_output", "function_call_output"}
    \/ msg.type \notin {"custom_tool_call", "function_call"} /\ msg.role = "tool"

\* the id the tool_result block of a tool-result input carries
ResultIdOf(msg) ==
    IF msg.type \in {"custom_tool_call_output", "function_call_output"}
    THEN msg.call_id ELSE msg.tool_call_id

\* a user message whose content is tool_result blocks only
IsToolResultTurn(msg) ==
    /\ msg.role = "user"
    /\ msg.content.form = "array"
    /\ msg.content.blocks /= <<>>
    /\ \A k \in 1..Len(msg.content.blocks) : msg.content.blocks[k].type = "tool_result"

\* C30: a run of consecutive tool-result inputs (`role: tool`,
\* custom_tool_call_output, function_call_output) becomes one user message
\* holding their tool_result blocks in input order: each input after the
\* first of a run adds its block at the end of the message the one before it
\* went to; and the output never holds two adjacent user messages that both
\* consist of tool_result blocks.
C30_ToolResultsCoalesced ==
    /\ [][(/\ cpc = "loop"
           /\ cI > 1
           /\ cI <= Len(cMessages)
           /\ IsToolResultInput(cMessages[cI])
           /\ IsToolResultInput(cMessages[cI - 1]))
          => /\ Len(cConverted') = Len(cConverted)
             /\ LET was == cConverted[Len(cConverted)].content.blocks
                    now == cConverted'[Len(cConverted)].content.blocks
                IN  /\ SubSeq(now, 1, Len(was)) = was
                    /\ Len(now) = Len(was) + 1
                    /\ now[Len(now)].type = "tool_result"
                    /\ now[Len(now)].id = ResultIdOf(cMessages[cI])]_vars
    /\ [](cpc = "done"
          => \A k \in 1..(Len(cConverted) - 1) :
                ~(IsToolResultTurn(cConverted[k]) /\ IsToolResultTurn(cConverted[k + 1])))

\* the tool_use blocks the conversion has made, out of tool_calls entries and
\* out of function_call and custom_tool_call items
MadeToolUses ==
    {b \in UNION {{m.content.blocks[k] : k \in 1..Len(m.content.blocks)} :
                    m \in {cConverted[j] : j \in 1..Len(cConverted)}} :
        b.type = "tool_use" /\ b.input /= NoInput}

\* the ids of the tool invocations of the messages converted so far
ConvertedCallIds ==
    UNION {IF cMessages[j].type \in {"custom_tool_call", "function_call"}
           THEN {cMessages[j].call_id}
           ELSE IF cMessages[j].role = "assistant"
           THEN {cMessages[j].tool_calls[k] : k \in 1..Len(cMessages[j].tool_calls)}
           ELSE {} : j \in 1..(cI - 1)}

\* C31: a tool invocation whose argument payload is a string that is not
\* valid JSON never aborts the conversion and becomes a tool_use block with
\* input {raw: <original string>}, for assistant tool_calls entries and for
\* function_call and custom_tool_call items alike.
C31_UnparseableArgumentsBecomeRaw ==
    cpc \in {"loop", "done"} =>
        /\ \A b \in MadeToolUses :
              (~Falsy(ArgumentsOf(b.id)) /\ ~jsonObjectParses(ArgumentsOf(b.id)))
              => b.input = Input("raw", ArgumentsOf(b.id))
        /\ \A id \in ConvertedCallIds : \E b \in MadeToolUses : b.id = id

----------------------------------------------------------------------------
(* Claims about the request orchestrator *)

IsBridgeToken(t) == startsWith(t.key, "sb1.")

\* what the bridge credential of a header token decrypts to
PayloadOf(t) == Vault(Tail(t.key))

HasFailingBridgeToken ==
    \E i \in 1..Len(rHeader) : IsBridgeToken(rHeader[i]) /\ ~PayloadOf(rHeader[i]).ok

AuthenticationFailure(response) ==
    /\ response.status = 401
    /\ response.form = "envelope"
    /\ response.type = <<"authentication_error">>
    /\ response.code = <<"authentication_error">>

ClaudeCalls == SelectSeq(rCalls, LAMBDA call : call.backend = "claude")

\* the token was decrypted from a bridge credential of the header
FromBridgeCredential(token) ==
    \E i \in 1..Len(rHeader) :
        /\ IsBridgeToken(rHeader[i])
        /\ PayloadOf(rHeader[i]).ok
        /\ PayloadOf(rHeader[i]).claudeAccess = token

\* a bridge credential of the header carries a refresh token
RefreshTokenAvailable ==
    \E i \in 1..Len(rHeader) :
        /\ IsBridgeToken(rHeader[i])
        /\ PayloadOf(rHeader[i]).ok
        /\ PayloadOf(rHeader[i]).claudeRefresh /= Undefined

\* C2: for a request sent to Anthropic the token is refreshed exactly when
\* the first answer is 401, the access token in use was decrypted from a
\* bridge credential and a refresh token is available; the refresh is called
\* at most once, Anthropic at most twice, a second call only after a refresh,
\* and a failed retry ends the request with an error response.
C2_RefreshAndRetry ==
    /\ rRefresh <= 1
    /\ Len(ClaudeCalls) <= 2
    /\ Len(ClaudeCalls) = 2 => rRefresh = 1
    /\ (rpc = "done" /\ Len(ClaudeCalls) >= 1) =>
          /\ rRefresh = 1 <=> /\ ClaudeCalls[1].status = 401
                              /\ FromBridgeCredential(ClaudeCalls[1].token)
                              /\ RefreshTokenAvailable
          /\ (Len(ClaudeCalls) = 2 /\ ClaudeCalls[2].status /= 200)
                => rResponse.status = ClaudeCalls[2].status

\* C6 as the spec states it, for every request
C6_AnyFailedCredentialIs401 ==
    (rpc = "done" /\ HasFailingBridgeToken)
    => (AuthenticationFailure(rResponse) /\ rCalls = <<>>)

\* C6: if any token of the header is a bridge credential that fails
\* decryption, then whatever other tokens the header holds and in whatever
\* order, no upstream call and no refresh is made, and the request, unless it
\* is a Cursor key check (answered before the header is read), ends with
\* HTTP 401 and an authentication_error envelope.
C6_FailedCredentialEndsRequest ==
    HasFailingBridgeToken
    => /\ rCalls = <<>>
       /\ rRefresh = 0
       /\ (rpc = "done" /\ ~rBody.keyCheck) => AuthenticationFailure(rResponse)

\* a valid routed token first, the expired bridge credential after it
C6_Witness ==
    /\ rpc = "done"
    /\ ~rBody.keyCheck
    /\ Len(rHeader) = 2
    /\ rHeader[1].routed /\ rHeader[1].key = <<"sk-ant-xxx">>
    /\ rHeader[2] = PlainToken(<<"sb1.", "expired">>, Undefined)
    /\ rModel = <<"o3">>
    /\ AuthenticationFailure(rResponse)
    /\ rCalls = <<>>

\* some routed token of the header maps the model
HeaderMaps(model) ==
    \E i \in 1..Len(rHeader) :
        rHeader[i].routed /\ \E j \in 1..Len(rHeader[i].maps) : rHeader[i].maps[j].from = model

\* a credential of the header can serve the model without a mapping: a plain
\* key, a bridge credential with a ChatGPT token, or a bridge credential with
\* a Claude token when the model is a Claude model
CanServe(model) ==
    \/ \E i \in 1..Len(rHeader) : ~rHeader[i].routed /\ IsLiteral(rHeader[i])
    \/ \E i \in 1..Len(rHeader) :
          /\ IsBridgeToken(rHeader[i])
          /\ PayloadOf(rHeader[i]).ok
          /\ \/ PayloadOf(rHeader[i]).chatgptAccess /= Undefined
             \/ /\ PayloadOf(rHeader[i]).claudeAccess /= Undefined
                /\ startsWith(FullModelId(model), "claude-")

\* the key of the first routed token, in header order, that maps the model
KeyOfFirstMapping(model) ==
    LET hits == {i \in 1..Len(rHeader) :
                   rHeader[i].routed
                   /\ \E j \in 1..Len(rHeader[i].maps) : rHeader[i].maps[j].from = model}
        t == rHeader[CHOOSE i \in hits : \A k \in hits : i <= k]
    IN  IF IsBridgeToken(t) THEN PayloadOf(t).claudeAccess ELSE t.key

NotConfigured(response) ==
    /\ response.status = 400
    /\ response.form = "envelope"
    /\ response.code = <<"model_not_configured">>

AnsweredWithError(call) ==
    call.backend \in {"claude", "chatgpt"} /\ call.status \notin {0, 200}

RefreshFailed == rRefresh = 1 /\ Len(rCalls) = 1 /\ rResponse = RefreshFailedResponse

RoutedToClaude ==
    /\ rpc \notin {"idle", "start"}
    /\ ~rBody.keyCheck
    /\ Falsy(rParsed.oauthError)
    /\ backendOf(rRouting, rModel, rParsed).backend = "claude"

\* C9: with the overflow policy `error`, a request to Anthropic whose
\* estimated total exceeds the effective limit of 190000 tokens is rejected
\* with HTTP 400 and code context_length_exceeded, and no call to Anthropic
\* and no token refresh is made for it.
C9_OversizedRejectedBeforeUpstream ==
    (/\ rMode = "error"
     /\ RoutedToClaude
     /\ Len(rBody.messages) > 0
     /\ estimateRequestTokens(cleanBodyOf(rBody)).totalTokens > 190000)
    => /\ rCalls = <<>>
       /\ rRefresh = 0
       /\ rpc = "done" =>
             /\ rResponse.status = 400
             /\ rResponse.form = "envelope"
             /\ rResponse.code = <<"context_length_exceeded">>

\* a request one token over the limit, rejected
C9_Witness ==
    /\ rpc = "done"
    /\ rMode = "error"
    /\ RoutedToClaude
    /\ rBody.messages = <<JustOverMessage>>
    /\ estimateRequestTokens(cleanBodyOf(rBody)).totalTokens = 190001
    /\ rResponse.code = <<"context_length_exceeded">>
    /\ rCalls = <<>>

\* the request is past the credential check and routed to the Responses back end
RoutedToChatGpt ==
    /\ rpc \notin {"idle", "start"}
    /\ ~rBody.keyCheck
    /\ Falsy(rParsed.oauthError)
    /\ backendOf(rRouting, rModel, rParsed).backend = "chatgpt"

\* C38: no call to the Responses back end is made without an account id;
\* when the Responses path is selected and the account id is missing, no
\* upstream call is made at all and the request ends with HTTP 401
\* authentication_error.
C38_NoResponsesCallWithoutAccountId ==
    /\ \A i \in 1..Len(rCalls) :
          rCalls[i].backend = "chatgpt" => ~Falsy(rCalls[i].accountId)
    /\ (RoutedToChatGpt /\ Falsy(TokenInfo.accountId))
       => /\ rCalls = <<>>
          /\ rpc \in {"parsed", "done"}
          /\ rpc = "done" => AuthenticationFailure(rResponse)

\* a JWT-shaped default key without an account id, answered 401 with no call
C38_Witness ==
    /\ rpc = "done"
    /\ rHeader = <<PlainToken(<<"hdr", ".", "payload", ".", "sig">>, Undefined)>>
    /\ RoutedToChatGpt
    /\ Falsy(TokenInfo.accountId)
    /\ rResponse = AccountIdMissingResponse
    /\ rCalls = <<>>

\* a request over the limit was truncated and sent to Anthropic, and its
\* system blocks and tools alone fit the limit
TruncatedAndSent ==
    /\ RoutedToClaude
    /\ rMode = "truncate"
    /\ Len(rCalls) >= 1
    /\ LET tokenEstimate == estimateRequestTokens(cleanBodyOf(rBody))
       IN  /\ tokenEstimate.isOverLimit
           /\ tokenEstimate.systemTokens + tokenEstimate.toolsTokens < effectiveLimit

\* C39: in `truncate` mode the body sent to Anthropic, after truncation and
\* with the notice among its system blocks, is not over the effective limit
\* by estimateRequestTokens, for every oversized request whose system blocks
\* and tools fit the limit.
C39_TruncatedBodyWithinLimit ==
    TruncatedAndSent => ~estimateRequestTokens(rClean).isOverLimit

\* C40: every request sent to Anthropic carries at least one message: a
\* request with no non-system message ends with HTTP 400 and no call, and in
\* every overflow mode the messages of the body sent are not empty.
C40_DispatchedMessagesNonEmpty ==
    RoutedToClaude =>
        /\ Len(rBody.messages) = 0
              => /\ rCalls = <<>>
                 /\ rpc = "done" => rResponse = NoMessagesResponse
        /\ Len(rCalls) >= 1 => Len(rClean.messages) > 0

----------------------------------------------------------------------------
(* Claims about the body sent to Anthropic *)

\* the request has been sent to Anthropic with rClean as its body
Dispatched == Len(ClaudeCalls) >= 1

\* the tool_choice values of the Anthropic API
InAnthropicShape(toolChoice) ==
    /\ toolChoice.form = "object"
    /\ Falsy(toolChoice.functionName)
    /\ \/ toolChoice.type \in {<<"auto">>, <<"any">>, <<"none">>}
       \/ toolChoice.type = <<"tool">> /\ ~Falsy(toolChoice.name)

\* what the documentation says is sent for a client's tool_choice
DocumentedToolChoice(toolChoice) ==
    IF toolChoice = StringToolChoice(<<"auto">>)
    THEN ObjectToolChoice(<<"auto">>, <<>>, <<>>)
    ELSE IF toolChoice = StringToolChoice(<<"required">>)
    THEN ObjectToolChoice(<<"any">>, <<>>, <<>>)
    ELSE IF toolChoice.form = "object" /\ ~Falsy(toolChoice.functionName)
    THEN ObjectToolChoice(<<"tool">>, toolChoice.functionName, <<>>)
    ELSE IF InAnthropicShape(toolChoice) THEN toolChoice
    ELSE NoToolChoice

\* C19: the tool_choice sent to Anthropic is the mapping of the client's
\* value: "auto" -> {type:"auto"}, "none" or null -> absent, "required" ->
\* {type:"any"}, {function:{name}} -> {type:"tool",name}, a value already in
\* Anthropic shape unchanged, and any other value is dropped.
C19_ToolChoiceMapped ==
    Dispatched => rClean.tool_choice = DocumentedToolChoice(rBody.tool_choice)

CacheControlled(xs) == {k \in 1..Len(xs) : xs[k].cache_control}

\* C20: in every request sent to Anthropic exactly one tool definition, the
\* last, carries the cache directive when there are tools, and exactly one
\* system block, the last, also when a truncation notice was prepended.
C20_OnlyLastCached ==
    Dispatched =>
        /\ rClean.tools /= <<>> => CacheControlled(rClean.tools) = {Len(rClean.tools)}
        /\ CacheControlled(rClean.system) = {Len(rClean.system)}

----------------------------------------------------------------------------
(* Claims about the OAuth authorization codes *)

\* the verifier answers the challenge the code was issued with
VerifierMatches(issued, codeVerifier) ==
    IF issued.codeChallengeMethod = "S256"
    THEN <<"sha256">> \o codeVerifier = issued.codeChallenge
    ELSE codeVerifier = issued.codeChallenge

\* C24: an authorization code is one-time use: over every sequence of
\* completeAuthorization and exchangeAuthorizationCode calls a code is
\* exchanged successfully at most once; an exchange attempted on a code after
\* an earlier attempt on it, successful or not, returns invalid_grant; and a
\* successful exchange had the code's client id and redirect URI, the PKCE
\* verifier for its challenge when it has one, and came before it expired.
C24_CodesAreOneTimeUse ==
    /\ [](\A code \in 1..Len(oSuccesses) : oSuccesses[code] <= 1)
    /\ []((oLast.called /\ oLast.error = "")
          => LET issued == oIssued[oLast.code]
             IN  /\ oLast.clientId = issued.clientId
                 /\ oLast.redirectUri = issued.redirectUri
                 /\ issued.codeChallenge /= <<>> => VerifierMatches(issued, oLast.codeVerifier)
                 /\ oLast.at <= issued.expiresAt)
    /\ [][(oLast' /= oLast /\ oLast'.code \in oAttempted)
          => oLast'.error = "invalid_grant"]_vars

\* a code issued with an S256 challenge, exchanged once with the right
\* verifier, and refused when the same call is made again
C24_Witness ==
    /\ oLast.called
    /\ oLast.code >= 1
    /\ oSuccesses[oLast.code] = 1
    /\ oIssued[oLast.code].codeChallengeMethod = "S256"
    /\ oLast.clientId = oIssued[oLast.code].clientId
    /\ oLast.redirectUri = oIssued[oLast.code].redirectUri
    /\ oLast.codeVerifier = <<"v1">>
    /\ oLast.at <= oIssued[oLast.code].expiresAt
    /\ oLast.error = "invalid_grant"

----------------------------------------------------------------------------
(* Specifications *)

NextAggregate ==
    \/ GReadChunk
    \/ GReadDone

StartAggregate == InitAggregate /\ IdleKeys /\ IdleTruncate /\ IdleStream /\ IdleRequest
    /\ IdleConvert /\ IdlePair /\ IdleOAuth /\ IdleAnthropic

SpecAggregate == StartAggregate /\ [][NextAggregate]_vars

NextAnthropic ==
    \/ AReadChunk
    \/ AReadDone

StartAnthropic == InitAnthropic /\ IdleKeys /\ IdleTruncate /\ IdleStream /\ IdleRequest
    /\ IdleConvert /\ IdlePair /\ IdleOAuth /\ IdleAggregate

SpecAnthropic == StartAnthropic /\ [][NextAnthropic]_vars

NextKeys ==
    \/ KParse
    \/ KResolve

StartKeys == InitKeys /\ IdleTruncate /\ IdleStream /\ IdleRequest /\ IdleConvert
    /\ IdlePair /\ IdleOAuth /\ IdleAnthropic /\ IdleAggregate

SpecKeys == StartKeys /\ [][NextKeys]_vars

NextTruncate ==
    \/ TRejectAll
    \/ TEmpty
    \/ TBegin
    \/ TWalk
    \/ TReturn

StartTruncate == InitTruncate /\ IdleKeys /\ IdleStream /\ IdleRequest /\ IdleConvert
    /\ IdlePair /\ IdleOAuth /\ IdleAnthropic /\ IdleAggregate

SpecTruncate == StartTruncate /\ [][NextTruncate]_vars

NextStream ==
    \/ SReadChunk
    \/ SReadChunkClientLeaves
    \/ SReadThrows
    \/ SReadDone

StartStream == InitStream /\ IdleKeys /\ IdleTruncate /\ IdleRequest /\ IdleConvert
    /\ IdlePair /\ IdleOAuth /\ IdleAnthropic /\ IdleAggregate

SpecStream == StartStream /\ [][NextStream]_vars

NextRequest ==
    \/ RBypass
    \/ RParse
    \/ RAuthError
    \/ RDispatchOpenAI
    \/ RChatGptNoAccount
    \/ RDispatchChatGpt
    \/ RNotConfigured
    \/ RNoMessages
    \/ RContextTooLarge
    \/ RDispatchClaude
    \/ RClaudeOk
    \/ RClaudeRefresh
    \/ RClaudeError
    \/ RRefreshThrows
    \/ RRefreshEmpty
    \/ RRefreshRetry
    \/ ROpenAIOk
    \/ ROpenAIError
    \/ RChatGptOk
    \/ RChatGptError

StartRequest == InitRequest /\ IdleKeys /\ IdleTruncate /\ IdleStream /\ IdleConvert
    /\ IdlePair /\ IdleOAuth /\ IdleAnthropic /\ IdleAggregate

SpecRequest == StartRequest /\ [][NextRequest]_vars

NextBody ==
    \/ RParse
    \/ RContextTooLarge
    \/ RDispatchClaude
    \/ RClaudeOk
    \/ RClaudeError

StartBody == InitBody /\ IdleKeys /\ IdleTruncate /\ IdleStream /\ IdleConvert
    /\ IdlePair /\ IdleOAuth /\ IdleAnthropic /\ IdleAggregate

SpecBody == StartBody /\ [][NextBody]_vars

NextOAuth ==
    \/ OStart
    \/ OComplete
    \/ OExchange
    \/ OCleanup
    \/ OTick

StartOAuth == InitOAuth /\ IdleKeys /\ IdleTruncate /\ IdleStream /\ IdleRequest
    /\ IdleConvert /\ IdlePair /\ IdleAnthropic /\ IdleAggregate

SpecOAuth == StartOAuth /\ [][NextOAuth]_vars

NextPair ==
    \/ PReadChunk
    \/ PReadDone

StartPair == InitPair /\ IdleKeys /\ IdleTruncate /\ IdleStream /\ IdleRequest
    /\ IdleConvert /\ IdleOAuth /\ IdleAnthropic /\ IdleAggregate

SpecPair == StartPair /\ [][NextPair]_vars

NextConvert ==
    \/ CBegin
    \/ CConvert
    \/ CEnsure

StartConvert == InitConvert /\ IdleKeys /\ IdleTruncate /\ IdleStream /\ IdleRequest
    /\ IdlePair /\ IdleOAuth /\ IdleAnthropic /\ IdleAggregate

SpecConvert == StartConvert /\ [][NextConvert]_vars

====
